---- MODULE Spec2Model ----
(***************************************************************************)
(* A model of the lighter templating and reactive-binding engine:          *)
(* scopes (src/src/scope.js, lighter.scope), the widget registry and the   *)
(* template traversal (src/src/lighter.js) and the repeater widget         *)
(* (src/src/widgets/repeater-attribute-widget.js).                         *)
(*                                                                         *)
(* JavaScript values are pairs <<tag, n>>.  Objects, arrays and DOM nodes  *)
(* live in three stores and are named by their index, which is their       *)
(* identity: two arrays of equal content are different values.             *)
(* Expressions and widget names are sequences of lexical tokens; the text  *)
(* of one (the string the program holds) is the concatenation of them.     *)
(***************************************************************************)
EXTENDS Integers, Sequences, FiniteSets, TLC

VARIABLES
  objs,      \* the objects: scopes and plain objects, [proto, props]
  arrs,      \* the arrays: source sequences and $$widgets lists
  dom,       \* the DOM nodes, [nodeType, tag, attrs, childNodes]
  widgets_,  \* lighter.widgets_, the registered definitions
  rw,        \* the fields of the RepeaterAttributeWidget instance
  last,      \* what the last operation did (its inputs, calls and events)
  hist,      \* what the caller did so far: the properties it assigned and
             \* the widgets it added, per scope
  steps      \* the number of operations performed

vars == <<objs, arrs, dom, widgets_, rw, last, hist, steps>>

(***************************** bounds **************************************)

\* the longest source array
MaxLen == 3
\* the number of distinct item references
NumAtoms == 2
\* the number of operations of a run of the repeater
MaxSteps == 4
\* the number of registered definitions
MaxDefs == 3
\* the number of applications of a template in a run
MaxApplies == 1
\* the number of scopes, and of operations on them in a run
MaxScopes == 3
MaxScopeSteps == 5

(***************************** values **************************************)

Undefined == <<"undefined", 0>>
Null == <<"null", 0>>
Atom(k) == <<"atom", k>>
Num(n) == <<"number", n>>
ObjRef(id) == <<"object", id>>
ArrRef(id) == <<"array", id>>
ElemRef(id) == <<"element", id>>
WidgetRef(id) == <<"widget", id>>
Str(text) == <<"string", text>>

Atoms == {Atom(k) : k \in 1..NumAtoms}

True == <<"boolean", 1>>
False == <<"boolean", 0>>

\* !v
Falsy(v) == v \in {Undefined, Null, False, Num(0), Str("")}

RECURSIVE Join(_)
\* the text of a token sequence
Join(tokens) == IF tokens = <<>> THEN "" ELSE Head(tokens) \o Join(Tail(tokens))

\* a function with one more (or one overwritten) key
Put(f, k, v) == [x \in DOMAIN f \cup {k} |-> IF x = k THEN v ELSE f[x]]

(***************************** objects *************************************)

RECURSIVE GetFrom(_, _, _)
\* o[name] on the object store os: the own property, else the prototype's
GetFrom(os, id, name) ==
  IF id = 0 THEN Undefined
  ELSE IF name \in DOMAIN os[id].props THEN os[id].props[name]
  ELSE GetFrom(os, os[id].proto, name)

\* value[name] for any value: only objects carry properties here
GetProp(os, v, name) ==
  IF v[1] = "object" THEN GetFrom(os, v[2], name) ELSE Undefined

RECURSIVE SetWhereFound(_, _, _, _)
\* a variant of SetOwn that writes where the property is found along the
\* prototype chain, and on o itself when it is found nowhere
SetWhereFound(os, id, name, v) ==
  IF name \in DOMAIN os[id].props \/ os[id].proto = 0
     \/ GetFrom(os, os[id].proto, name) = Undefined
  THEN [os EXCEPT ![id].props = Put(os[id].props, name, v)]
  ELSE SetWhereFound(os, os[id].proto, name, v)

\* o[name] = v: an own property of o, whatever the prototype holds
SetOwn(os, id, name, v) ==
  [os EXCEPT ![id].props = Put(os[id].props, name, v)]

(***************************** scopes **************************************)

\* lighter.Scope, the constructor, on the properties of `this`
ScopeCtor(props, root, wlist) ==
  Put(Put(props, "$$root", ElemRef(root)), "$$widgets", ArrRef(wlist))

\* a variant of LighterScope that does not run the constructor on a forked
\* scope, which then reads $$root and $$widgets from its parent
ForkWithoutConstructor(os, as, element, parent) ==
  IF parent = 0
  THEN [objs |-> Append(os, [proto |-> 0,
                             props |-> ScopeCtor(<<>>, element, Len(as) + 1)]),
        arrs |-> Append(as, <<>>),
        id |-> Len(os) + 1]
  ELSE [objs |-> Append(os, [proto |-> parent,
                             props |-> Put(<<>>, "$$parent", ObjRef(parent))]),
        arrs |-> as,
        id |-> Len(os) + 1]

\* lighter.scope(element, parent), parent = 0 for none: the stores with the
\* new scope in them, and its id
LighterScope(os, as, element, parent) ==
  LET wlist == Len(as) + 1
      created == IF parent = 0
                 THEN [proto |-> 0, props |-> <<>>]
                 ELSE [proto |-> parent,
                       props |-> Put(<<>>, "$$parent", ObjRef(parent))]
  IN [objs |-> Append(os, [created EXCEPT
                             !.props = ScopeCtor(created.props, element, wlist)]),
      arrs |-> Append(as, <<>>),
      id |-> Len(os) + 1]

\* scope.$addWidget(widget): a push on the array that scope.$$widgets names
AddWidget(os, as, scope, widget) ==
  LET list == GetFrom(os, scope, "$$widgets")
  IN [as EXCEPT ![list[2]] = Append(@, widget)]

\* typeof widget.update === 'function'
\*   <<"widget", k>>      a widget with an update function
\*   <<"inert", k>>       a widget object without one
\*   <<"propagator", s>>  a widget whose update() calls $update() of scope s,
\*                        as the repeater does for its item scopes
\*   <<"thrower", k>>     a widget whose update() throws
HasUpdate(widget) == widget[1] \in {"widget", "propagator", "thrower"}

\* whether a pass ended in an exception: its last call is the one that threw
Throws(calls) == calls # <<>> /\ calls[Len(calls)][1] = "thrower"

RECURSIVE ScopeUpdate(_, _, _)
RECURSIVE UpdateEach(_, _, _, _)
RECURSIVE UpdateEachPastThrow(_, _, _, _)
\* scope.$update(): the update() calls it makes, in order
ScopeUpdate(os, as, scope) ==
  UpdateEach(os, as, as[GetFrom(os, scope, "$$widgets")[2]], 1)

\* the callback of the forEach for one widget: the update() calls it leads to
UpdateWidget(os, as, widget) ==
  IF ~HasUpdate(widget) THEN <<>>
  ELSE IF widget[1] = "propagator"
  THEN <<widget>> \o ScopeUpdate(os, as, widget[2])
  ELSE <<widget>>

\* the forEach after the callback for list[i] made `calls`: an exception
\* ends it
UpdateRest(os, as, list, i, calls) ==
  IF Throws(calls) THEN calls
  ELSE calls \o UpdateEach(os, as, list, i + 1)

\* a forEach that goes on to the next widget after an exception
UpdateEachPastThrow(os, as, list, i) ==
  IF i > Len(list) THEN <<>>
  ELSE UpdateWidget(os, as, list[i]) \o UpdateEachPastThrow(os, as, list, i + 1)

\* the forEach of $update, from list[i] on
UpdateEach(os, as, list, i) ==
  IF i > Len(list) THEN <<>>
  ELSE UpdateRest(os, as, list, i, UpdateWidget(os, as, list[i]))

(************************ registry and templates ***************************)

ELEMENT == 0
ATTRIBUTE == 1

\* lighter.widget(name, factory, is_container), the registering call
Widget(defs, name, factory, is_container) ==
  LET attr == Head(name) = "@"
      bare == IF attr THEN Join(Tail(name)) ELSE Join(name)
  IN Append(defs, [name |-> bare,
                   type |-> IF attr THEN ATTRIBUTE ELSE ELEMENT,
                   selector |-> IF attr THEN <<"[", bare, "]">> ELSE <<bare>>,
                   factory |-> factory,
                   is_container |-> is_container])

RECURSIVE WidgetLookupLatest(_, _)
\* a lookup that prefers the latest registration
WidgetLookupLatest(defs, name) ==
  IF defs = <<>> THEN Null
  ELSE IF /\ defs[Len(defs)].type = (IF Head(name) = "@" THEN ATTRIBUTE ELSE ELEMENT)
          /\ defs[Len(defs)].name
               = (IF Head(name) = "@" THEN Join(Tail(name)) ELSE Join(name))
  THEN defs[Len(defs)].factory
  ELSE WidgetLookupLatest(SubSeq(defs, 1, Len(defs) - 1), name)

RECURSIVE WidgetLookup(_, _)
\* lighter.widget(name), the call with one argument: the factory of the
\* first definition of the type and name, or null
WidgetLookup(defs, name) ==
  IF defs = <<>> THEN Null
  ELSE IF /\ Head(defs).type = (IF Head(name) = "@" THEN ATTRIBUTE ELSE ELEMENT)
          /\ Head(defs).name
               = (IF Head(name) = "@" THEN Join(Tail(name)) ELSE Join(name))
  THEN Head(defs).factory
  ELSE WidgetLookup(Tail(defs), name)

\* matchesSelector.call(element, selector) for the two selector shapes that
\* lighter.widget builds: a tag name, or [attribute]
MatchesSelector(node, selector) ==
  IF Len(selector) = 1 THEN node.tag = selector[1]
  ELSE selector[2] \in DOMAIN node.attrs

\* definition.factory.call(null, element, data, scope) for the factories of
\* this model: factory <<"factory", k, w>> touches nothing and returns a
\* widget with an update function when w = 1, nothing when w = 0
FactoryCall(factory, element) ==
  IF factory[3] = 1 THEN WidgetRef(element) ELSE Null

RECURSIVE ProcessElement(_, _, _, _, _, _)
RECURSIVE ProcessChildren(_, _, _, _, _, _)
RECURSIVE ProcessChildrenFrom(_, _, _, _, _, _, _)
RECURSIVE MatchDefinitions(_, _, _, _, _, _, _)

\* a variant of MatchDefinitions that stops at the first matching definition
MatchFirstDefinition(doc, os, defs, element, scope, i, st) ==
  IF i > Len(defs) THEN st
  ELSE IF ~MatchesSelector(doc[element], defs[i].selector)
  THEN MatchDefinitions(doc, os, defs, element, scope, i + 1, st)
  ELSE LET widget == FactoryCall(defs[i].factory, element)
       IN [log |-> Append(st.log, <<"factory", i, element,
                                    IF defs[i].type = ATTRIBUTE
                                    THEN doc[element].attrs[defs[i].name]
                                    ELSE "">>),
           arrs |-> IF widget # Null
                    THEN AddWidget(os, st.arrs, scope, widget) ELSE st.arrs,
           matched |-> TRUE,
           is_container |-> defs[i].is_container]

\* the definitions.forEach of processElement, from definition i on, on the
\* document doc; st = [log, arrs, matched, is_container]
MatchDefinitions(doc, os, defs, element, scope, i, st) ==
  IF i > Len(defs) THEN st
  ELSE IF ~MatchesSelector(doc[element], defs[i].selector)
  THEN MatchDefinitions(doc, os, defs, element, scope, i + 1, st)
  ELSE LET data == IF defs[i].type = ATTRIBUTE
                   THEN doc[element].attrs[defs[i].name] ELSE ""
           widget == FactoryCall(defs[i].factory, element)
           called == <<"factory", i, element, data>>
       IN MatchDefinitions(doc, os, defs, element, scope, i + 1,
            [log |-> Append(st.log, called),
             arrs |-> IF widget # Null
                      THEN AddWidget(os, st.arrs, scope, widget) ELSE st.arrs,
             matched |-> TRUE,
             is_container |-> defs[i].is_container])

\* processElement(element, scope); st = [log, arrs]
ProcessElement(doc, os, defs, element, scope, st) ==
  LET m == MatchDefinitions(doc, os, defs, element, scope, 1,
             [log |-> st.log, arrs |-> st.arrs,
              matched |-> FALSE, is_container |-> FALSE])
      after == [log |-> m.log, arrs |-> m.arrs]
  IN IF ~m.matched \/ ~m.is_container
     THEN ProcessChildren(doc, os, defs, element, scope, after)
     ELSE after

\* scope.emit('ready')
EmitReady(log, scope) == Append(log, <<"ready", 0, scope, "">>)

\* a variant of ProcessChildren that emits `ready` after the children of every
\* element it is called for
ProcessChildrenReadyEach(doc, os, defs, root, scope, st) ==
  [ProcessChildrenFrom(doc, os, defs, root, scope, 1, st)
     EXCEPT !.log = EmitReady(@, scope)]

\* processChildren(root, scope)
ProcessChildren(doc, os, defs, root, scope, st) ==
  LET done == ProcessChildrenFrom(doc, os, defs, root, scope, 1, st)
  IN IF ElemRef(root) = GetFrom(os, scope, "$$root")
     THEN [done EXCEPT !.log = EmitReady(done.log, scope)]
     ELSE done

ProcessChildrenFrom(doc, os, defs, root, scope, i, st) ==
  IF i > Len(doc[root].childNodes) THEN st
  ELSE LET node == doc[root].childNodes[i]
       IN ProcessChildrenFrom(doc, os, defs, root, scope, i + 1,
            IF doc[node].nodeType = 1
            THEN ProcessElement(doc, os, defs, node, scope, st)
            ELSE st)

\* lighter.liveWidgetPlaceholdersInDOM_(dom, scope, include_root)
LiveWidgetPlaceholdersInDOM(doc, os, as, defs, root, scope, include_root) ==
  IF include_root
  THEN ProcessElement(doc, os, defs, root, scope, [log |-> <<>>, arrs |-> as])
  ELSE ProcessChildren(doc, os, defs, root, scope, [log |-> <<>>, arrs |-> as])

(********************* the template compiler at work ***********************)

Node(nodeType, tag, attrs, childNodes) ==
  [nodeType |-> nodeType, tag |-> tag, attrs |-> attrs, childNodes |-> childNodes]

Attrs(names) == [n \in names |-> "exp"]

\* <div><ul lt:repeat lt:attrs>text<li lt:bind/></ul>
\*      <span lt:bind lt:click/></div>
Page ==
  << Node(1, "div", Attrs({}), <<2, 5>>),
     Node(1, "ul", Attrs({"lt:repeat", "lt:attrs"}), <<3, 4>>),
     Node(3, "#text", Attrs({}), <<>>),
     Node(1, "li", Attrs({"lt:bind"}), <<>>),
     Node(1, "span", Attrs({"lt:bind", "lt:click"}), <<>>) >>

\* the registrations a run draws from: name, factory, is_container
Registrable ==
  { <<<<"@", "lt:repeat">>, <<"factory", 1, 1>>, TRUE>>,
    <<<<"@", "lt:attrs">>, <<"factory", 2, 1>>, FALSE>>,
    <<<<"@", "lt:bind">>, <<"factory", 3, 1>>, FALSE>>,
    <<<<"@", "lt:click">>, <<"factory", 4, 0>>, FALSE>>,
    <<<<"span">>, <<"factory", 5, 1>>, TRUE>>,
    <<<<"span">>, <<"factory", 6, 0>>, FALSE>>,
    <<<<"@", "span">>, <<"factory", 7, 0>>, FALSE>> }

\* the names a run looks up
Sought == {<<"span">>, <<"@", "span">>, <<"@", "lt:bind">>, <<"lt:bind">>}

\* the elements a scope is bound to, and the roots a template is made of
ScopeRoots == {1, 2}
TemplateRoots == {1, 2, 5}

NoRepeater == [container |-> 0]
NoHistory == [written |-> <<>>, added |-> <<>>]

\* lighter.widgets_ is empty and one scope is bound to an element of the page
TemplateInit ==
  /\ dom = Page
  /\ \E element \in ScopeRoots :
       LET made == LighterScope(<<>>, <<>>, element, 0)
       IN objs = made.objs /\ arrs = made.arrs
  /\ widgets_ = <<>>
  /\ rw = NoRepeater
  /\ last = [op |-> "init"]
  /\ hist = NoHistory
  /\ steps = 0

\* lighter.widget(name, factory, is_container)
Register ==
  /\ Len(widgets_) < MaxDefs
  /\ \E r \in Registrable :
       /\ widgets_' = Widget(widgets_, r[1], r[2], r[3])
       /\ last' = [op |-> "widget", name |-> r[1], before |-> widgets_]
  /\ UNCHANGED <<objs, arrs, dom, rw, hist, steps>>

\* lighter.template(root, include_root)(scope), as lighter.compile returns it:
\* the page holds no {{ }} markup, DOMCompiler.compileDOM leaves it as it is
Apply ==
  /\ steps < MaxApplies
  /\ \E root \in TemplateRoots, include_root \in BOOLEAN :
       LET done == LiveWidgetPlaceholdersInDOM(dom, objs, arrs, widgets_, root, 1,
                                               include_root)
       IN /\ arrs' = done.arrs
          /\ last' = [op |-> "template", root |-> root,
                      include_root |-> include_root, scope |-> 1,
                      defs |-> widgets_, log |-> done.log]
  /\ steps' = steps + 1
  /\ UNCHANGED <<objs, dom, widgets_, rw, hist>>

\* lighter.widget(name)
Lookup ==
  /\ \E name \in Sought :
       last' = [op |-> "lookup", name |-> name, before |-> widgets_,
                value |-> WidgetLookup(widgets_, name)]
  /\ UNCHANGED <<objs, arrs, dom, widgets_, rw, hist, steps>>

TemplateNext == Register \/ Apply \/ Lookup

SpecTemplate == TemplateInit /\ [][TemplateNext]_vars

(******************** claims on the template compiler **********************)

\* the definitions (their indices, in registration order) matching element e
AllMatching(e, defs) ==
  SelectSeq([i \in 1..Len(defs) |-> i],
            LAMBDA i : MatchesSelector(dom[e], defs[i].selector))

\* the definitions whose factory the log shows invoked for element e, in order
InvokedFor(log, e) ==
  LET mine == SelectSeq(log, LAMBDA c : c[1] = "factory" /\ c[3] = e)
  IN [k \in 1..Len(mine) |-> mine[k][2]]

RECURSIVE Descendants(_)
Descendants(e) ==
  LET kids == {dom[e].childNodes[k] : k \in 1..Len(dom[e].childNodes)}
  IN kids \cup UNION {Descendants(c) : c \in kids}

ReadyAt(log) == {k \in 1..Len(log) : log[k][1] = "ready"}

ScopeRootOf(scope) == GetFrom(objs, scope, "$$root")[2]

C7_ContainerNotDescended ==
  last.op = "template" =>
    \A e \in 1..Len(dom) :
      LET matching == AllMatching(e, last.defs)
      IN /\ ( /\ InvokedFor(last.log, e) # <<>>
              /\ last.defs[Head(matching)].is_container )
            => \A d \in Descendants(e) : InvokedFor(last.log, d) = <<>>
         /\ ( /\ InvokedFor(last.log, e) # <<>>
              /\ \E d \in Descendants(e) : InvokedFor(last.log, d) # <<>> )
            => \E k \in 1..Len(matching) :
                 ~last.defs[matching[k]].is_container

\* C8, as claimed: every application emits `ready` exactly once, after every
\* factory invocation.
C8_ReadyOnceAtEnd ==
  last.op = "template" => ReadyAt(last.log) = {Len(last.log)}

\* C8, amended: an application emits `ready` at most once, and after every
\* factory it invokes for the scope's bound root and its descendants; with
\* the scope's bound root as the template root it emits it exactly once, as
\* its last step, when include_root is false or no definition matching the
\* root is container-flagged, and not at all when include_root is true and
\* the definitions matching the root are all container-flagged; with the
\* scope's bound root outside the template root's subtree it emits none.
C8_ReadyForScopeRoot ==
  last.op = "template" =>
    LET log == last.log
        ready == ReadyAt(log)
        bound == ScopeRootOf(last.scope)
        matching == AllMatching(last.root, last.defs)
        flags == {last.defs[matching[k]].is_container : k \in 1..Len(matching)}
    IN /\ Cardinality(ready) <= 1
       /\ \A k \in ready : \A j \in 1..Len(log) :
            (log[j][1] = "factory" /\ log[j][3] \in {bound} \cup Descendants(bound))
              => j < k
       /\ (last.root = bound /\ (~last.include_root \/ TRUE \notin flags))
            => ready = {Len(log)}
       /\ (last.root = bound /\ last.include_root /\ flags = {TRUE})
            => ready = {}
       /\ bound \notin {last.root} \cup Descendants(last.root)
            => ready = {}

\* an application to the scope's own root that invoked factories and then
\* emitted `ready`
C8_Witness ==
  /\ last.op = "template"
  /\ last.root = ScopeRootOf(last.scope)
  /\ Len(last.log) >= 3
  /\ ReadyAt(last.log) = {Len(last.log)}

(***************************** scopes at work ******************************)

\* the property names and the widgets a run draws from
Keys == {"x"}
WidgetsFor(scope) ==
  {WidgetRef(1), <<"inert", 1>>}
    \cup {<<"propagator", c>> : c \in (scope + 1)..Len(objs)}

\* lighter.scope(root_element): one scope without a parent
ScopeInit ==
  /\ dom = Page
  /\ LET made == LighterScope(<<>>, <<>>, 1, 0)
     IN objs = made.objs /\ arrs = made.arrs
  /\ widgets_ = <<>>
  /\ rw = NoRepeater
  /\ last = [op |-> "init"]
  /\ hist = [written |-> <<>>, added |-> <<<<>>>>]
  /\ steps = 0

\* lighter.scope(element, parent)
Fork ==
  /\ steps < MaxScopeSteps
  /\ Len(objs) < MaxScopes
  /\ \E parent \in 1..Len(objs), element \in ScopeRoots :
       LET made == LighterScope(objs, arrs, element, parent)
       IN /\ objs' = made.objs
          /\ arrs' = made.arrs
          /\ last' = [op |-> "scope", parent |-> parent, scope |-> made.id]
  /\ hist' = [hist EXCEPT !.added = Append(@, <<>>)]
  /\ steps' = steps + 1
  /\ UNCHANGED <<dom, widgets_, rw>>

\* scope[key] = value, as createItem_ assigns the loop keys
Assign ==
  /\ steps < MaxScopeSteps
  /\ \E scope \in 1..Len(objs), key \in Keys, value \in Atoms :
       /\ objs' = SetOwn(objs, scope, key, value)
       /\ last' = [op |-> "assign", scope |-> scope, key |-> key,
                   value |-> value,
                   before |-> [s \in 1..Len(objs) |-> GetFrom(objs, s, key)]]
       /\ hist' = [hist EXCEPT !.written = Put(@, <<scope, key>>, value)]
  /\ steps' = steps + 1
  /\ UNCHANGED <<arrs, dom, widgets_, rw>>

\* scope.$addWidget(widget)
AddWidgetTo ==
  /\ steps < MaxScopeSteps
  /\ \E scope \in 1..Len(objs) : \E widget \in WidgetsFor(scope) :
       /\ arrs' = AddWidget(objs, arrs, scope, widget)
       /\ last' = [op |-> "$addWidget", scope |-> scope, widget |-> widget]
       /\ hist' = [hist EXCEPT !.added[scope] = Append(@, widget)]
  /\ steps' = steps + 1
  /\ UNCHANGED <<objs, dom, widgets_, rw>>

\* what a call of scope.$update() that made `calls` leaves for the caller
Passed(scope, calls) ==
  [op |-> "$update", scope |-> scope, calls |-> calls,
   thrown |-> Throws(calls)]

\* scope.$update()
Update ==
  /\ steps < MaxScopeSteps
  /\ \E scope \in 1..Len(objs) :
       last' = Passed(scope, ScopeUpdate(objs, arrs, scope))
  /\ steps' = steps + 1
  /\ UNCHANGED <<objs, arrs, dom, widgets_, rw, hist>>

ScopeNext == Fork \/ Assign \/ AddWidgetTo \/ Update

SpecScope == ScopeInit /\ [][ScopeNext]_vars

\* scope.$addWidget(widget) of a widget whose update() throws
AddThrower ==
  /\ steps < MaxScopeSteps
  /\ \E scope \in 1..Len(objs) :
       /\ arrs' = AddWidget(objs, arrs, scope, <<"thrower", 1>>)
       /\ last' = [op |-> "$addWidget", scope |-> scope,
                   widget |-> <<"thrower", 1>>]
       /\ hist' = [hist EXCEPT !.added[scope] = Append(@, <<"thrower", 1>>)]
  /\ steps' = steps + 1
  /\ UNCHANGED <<objs, dom, widgets_, rw>>

UpdateNext == Fork \/ AddWidgetTo \/ AddThrower \/ Update

\* scopes whose widgets may throw in update()
SpecUpdate == ScopeInit /\ [][UpdateNext]_vars

(**************************** claims on scopes *****************************)

RECURSIVE ExpectedCalls(_)
RECURSIVE ExpectedFrom(_, _)
\* the update() calls a pass over the widgets added to a scope is to make
ExpectedCalls(scope) == ExpectedFrom(hist.added[scope], 1)

ExpectedFrom(added, i) ==
  IF i > Len(added) THEN <<>>
  ELSE ( CASE added[i][1] \in {"widget", "thrower"} -> <<added[i]>>
           [] added[i][1] = "propagator" ->
                <<added[i]>> \o ExpectedCalls(added[i][2])
           [] OTHER -> <<>> )
       \o ExpectedFrom(added, i + 1)

\* the list scope.$$widgets names
OwnedWidgets(scope) == arrs[GetFrom(objs, scope, "$$widgets")[2]]

\* C9: a scope's owned list is the widgets added to that scope, in the order
\* added, duplicates kept (adding to a child leaves it alone), and $update()
\* calls update() once per entry that has one, in that order; the widgets of
\* another scope are updated only through a widget that calls that scope's
\* $update().
C9_UpdateInOrder ==
  /\ \A s \in 1..Len(objs) : OwnedWidgets(s) = hist.added[s]
  /\ last.op = "$update" => last.calls = ExpectedCalls(last.scope)

\* a pass over a list that holds a widget twice, a widget without update()
\* and, in a child scope, a widget the pass does not reach
C9_Witness ==
  /\ last.op = "$update"
  /\ last.scope = 1
  /\ Len(objs) >= 2
  /\ hist.added[2] # <<>>
  /\ \E i, j \in 1..Len(hist.added[1]) : i < j /\ hist.added[1][i] = hist.added[1][j]
  /\ Len(last.calls) = 2

\* the first call of a pass that throws, 0 for none
FirstThrow(calls) ==
  IF \A n \in 1..Len(calls) : calls[n][1] # "thrower" THEN 0
  ELSE CHOOSE n \in 1..Len(calls) :
         /\ calls[n][1] = "thrower"
         /\ \A m \in 1..(n - 1) : calls[m][1] # "thrower"

\* the calls of a pass over `full` that the first exception ends
UntilThrow(full, n) == IF n = 0 THEN full ELSE SubSeq(full, 1, n)

\* C16: $update() throws exactly when the update() of a widget it reaches
\* throws; the widgets before that one have been updated, in order, no
\* widget after it is, and every scope's owned list is as it was added.
C16_UpdateStopsAtThrow ==
  /\ \A s \in 1..Len(objs) : OwnedWidgets(s) = hist.added[s]
  /\ last.op = "$update" =>
       /\ last.thrown = (FirstThrow(ExpectedCalls(last.scope)) # 0)
       /\ last.calls = UntilThrow(ExpectedCalls(last.scope),
                                  FirstThrow(ExpectedCalls(last.scope)))

\* a pass that threw between two widgets with update()
C16_Witness ==
  /\ last.op = "$update"
  /\ last.thrown
  /\ \E i, j, k \in 1..Len(hist.added[last.scope]) :
       /\ i < j /\ j < k
       /\ hist.added[last.scope][i] = WidgetRef(1)
       /\ hist.added[last.scope][j][1] = "thrower"
       /\ hist.added[last.scope][k] = WidgetRef(1)
  /\ last.calls = <<WidgetRef(1), <<"thrower", 1>>>>

RECURSIVE Resolve(_, _)
\* the value last assigned to `key` on the nearest of scope, its $$parent,
\* the $$parent of that, ...
Resolve(scope, key) ==
  IF <<scope, key>> \in DOMAIN hist.written THEN hist.written[<<scope, key>>]
  ELSE IF "$$parent" \in DOMAIN objs[scope].props
  THEN Resolve(objs[scope].props["$$parent"][2], key)
  ELSE Undefined

RECURSIVE Ancestors(_)
Ancestors(scope) ==
  IF "$$parent" \in DOMAIN objs[scope].props
  THEN LET p == objs[scope].props["$$parent"][2] IN {p} \cup Ancestors(p)
  ELSE {}

\* C10: a scope reads, for a property never assigned on it, the current value
\* of its parent (at any depth of the chain); an assignment on a scope changes
\* what that scope reads and leaves what its parent, its siblings and every
\* scope that does not descend from it read as it was.
C10_ScopeChain ==
  /\ \A s \in 1..Len(objs), k \in Keys : GetFrom(objs, s, k) = Resolve(s, k)
  /\ last.op = "assign" =>
       /\ GetFrom(objs, last.scope, last.key) = last.value
       /\ \A s \in 1..Len(objs) :
            (s # last.scope /\ last.scope \notin Ancestors(s))
              => GetFrom(objs, s, last.key) = last.before[s]

\* a child was assigned a property its parent holds: the child reads the new
\* value, the parent and a sibling still read the parent's
C10_Witness ==
  /\ last.op = "assign"
  /\ Len(objs) >= 3
  /\ last.scope = 2
  /\ Ancestors(2) = {1} /\ Ancestors(3) = {1}
  /\ <<1, last.key>> \in DOMAIN hist.written
  /\ GetFrom(objs, 1, last.key) # last.value
  /\ GetFrom(objs, 3, last.key) = GetFrom(objs, 1, last.key)
  /\ GetFrom(objs, 2, last.key) = last.value

(************************ the expression compiler **************************)

Quotes == {"'", "\""}
Digits == ("0" :> 0) @@ ("1" :> 1) @@ ("2" :> 2) @@ ("3" :> 3) @@ ("4" :> 4)
          @@ ("5" :> 5) @@ ("6" :> 6) @@ ("7" :> 7) @@ ("8" :> 8) @@ ("9" :> 9)
Punctuation == {".", "[", "]", "=", "(", ")", ",", "!", "|", "{{", "}}", " in "}

\* a token that is a run of [a-zA-Z$_:], FIRST_LEVEL
IsIdent(tok) == tok \notin Punctuation \cup Quotes \cup DOMAIN Digits

\* the text between brackets, [a-zA-Z$_.:]+
IsBracketKey(toks) ==
  toks # <<>> /\ \A k \in 1..Len(toks) : IsIdent(toks[k]) \/ toks[k] = "."

RECURSIVE IsDeeperLevels(_)
\* (?:DEEPER_LEVEL)* against the whole of toks
IsDeeperLevels(toks) ==
  \/ toks = <<>>
  \/ /\ Len(toks) >= 2
     /\ toks[1] = "."
     /\ IsIdent(toks[2])
     /\ IsDeeperLevels(SubSeq(toks, 3, Len(toks)))
  \/ /\ Len(toks) >= 3
     /\ toks[1] = "["
     /\ \E k \in 3..Len(toks) :
          /\ toks[k] = "]"
          /\ IsBracketKey(SubSeq(toks, 2, k - 1))
          /\ IsDeeperLevels(SubSeq(toks, k + 1, Len(toks)))

\* GETTER_EXPRESSION against the whole of toks
IsGetter(toks) ==
  toks # <<>> /\ IsIdent(Head(toks)) /\ IsDeeperLevels(Tail(toks))

\* lighter.ExpressionCompiler.parseKeyLoopExpression(exp): `target in source`,
\* the first group taking as much as it can; ok = FALSE where the code throws
ParseKeyLoopExpression(exp) ==
  LET splits == {k \in 2..(Len(exp) - 1) :
                   /\ exp[k] = " in "
                   /\ IsGetter(SubSeq(exp, 1, k - 1))
                   /\ IsGetter(SubSeq(exp, k + 1, Len(exp)))}
  IN IF splits = {} THEN [ok |-> FALSE, source |-> <<>>, target |-> <<>>]
     ELSE LET k == CHOOSE x \in splits : \A y \in splits : y <= x
          IN [ok |-> TRUE,
              source |-> SubSeq(exp, k + 1, Len(exp)),
              target |-> SubSeq(exp, 1, k - 1)]

\* String(level), the property name a level selects
PropName(level) ==
  CASE level[1] = "string" -> level[2]
    [] level[1] = "number" -> ToString(level[2])
    [] level[1] = "null" -> "null"
    [] level[1] = "undefined" -> "undefined"
    [] OTHER -> "[object Object]"

RECURSIVE NumberOf(_)
\* Number(exp) for a run of digits
NumberOf(toks) ==
  IF toks = <<>> THEN 0
  ELSE 10 * NumberOf(SubSeq(toks, 1, Len(toks) - 1)) + Digits[toks[Len(toks)]]

RECURSIVE Get(_, _, _)
RECURSIVE DeeperLevels(_, _, _)
RECURSIVE GetWalk(_, _, _, _)

\* lighter.ExpressionCompiler.parseLevels(exp, scope), for an expression that
\* starts with its first level (every getter expression does) or with `!`
\* and its first level: FIRST_LEVEL finds the level after the `!`, and the
\* text left when as many characters are cut from the start still holds
\* every deeper level
ParseLevels(os, exp, scope) ==
  IF exp # <<>> /\ IsIdent(Head(exp))
  THEN <<Str(Head(exp))>> \o DeeperLevels(os, Tail(exp), scope)
  ELSE IF Len(exp) >= 2 /\ exp[1] = "!" /\ IsIdent(exp[2])
  THEN <<Str(exp[2])>> \o DeeperLevels(os, SubSeq(exp, 3, Len(exp)), scope)
  ELSE <<Str("")>> \o DeeperLevels(os, exp, scope)

\* the matches of DEEPER_LEVELS in toks, each turned into its level
DeeperLevels(os, toks, scope) ==
  IF toks = <<>> THEN <<>>
  ELSE IF Len(toks) >= 2 /\ toks[1] = "." /\ IsIdent(toks[2])
  THEN <<Str(toks[2])>> \o DeeperLevels(os, SubSeq(toks, 3, Len(toks)), scope)
  ELSE LET closing == {k \in 3..Len(toks) :
                         toks[k] = "]" /\ IsBracketKey(SubSeq(toks, 2, k - 1))}
       IN IF toks[1] = "[" /\ closing # {}
          THEN LET k == CHOOSE x \in closing : TRUE
               IN <<Get(os, SubSeq(toks, 2, k - 1), scope)>>
                    \o DeeperLevels(os, SubSeq(toks, k + 1, Len(toks)), scope)
          ELSE DeeperLevels(os, Tail(toks), scope)

RECURSIVE GetWalkNullLevelRead(_, _, _, _)
\* the levels.some of get, had it read the property "null" for a null level
GetWalkNullLevelRead(os, value, levels, i) ==
  IF i > Len(levels) THEN value
  ELSE IF \/ value = Null
          \/ levels[i] = Undefined
          \/ GetProp(os, value, PropName(levels[i])) = Undefined
  THEN Undefined
  ELSE GetWalkNullLevelRead(os, GetProp(os, value, PropName(levels[i])),
                            levels, i + 1)

\* the levels.some of get, from level i on
GetWalk(os, value, levels, i) ==
  IF i > Len(levels) THEN value
  ELSE IF \/ value = Null
          \/ levels[i] = Null
          \/ levels[i] = Undefined
          \/ GetProp(os, value, PropName(levels[i])) = Undefined
  THEN Undefined
  ELSE GetWalk(os, GetProp(os, value, PropName(levels[i])), levels, i + 1)

\* lighter.ExpressionCompiler.get(exp, scope)
Get(os, exp, scope) ==
  IF Len(exp) >= 2 /\ Head(exp) \in Quotes /\ exp[Len(exp)] = Head(exp)
  THEN Str(Join(SubSeq(exp, 2, Len(exp) - 1)))
  ELSE IF exp # <<>> /\ \A k \in 1..Len(exp) : exp[k] \in DOMAIN Digits
  THEN Num(NumberOf(exp))
  ELSE GetWalk(os, scope, ParseLevels(os, exp, scope), 1)

\* a value that is no object: in strict code an assignment to one of its
\* properties throws a TypeError
Primitive(v) == v[1] \in {"number", "string"}

RECURSIVE SetWalk(_, _, _, _, _)
\* the levels.some of set, from level i on: the objects after it, and whether
\* it threw
SetWalk(os, target, levels, value, i) ==
  IF i > Len(levels) \/ levels[i] = Undefined
  THEN [objs |-> os, thrown |-> FALSE]
  ELSE IF Primitive(target) THEN [objs |-> os, thrown |-> TRUE]
  ELSE IF i = Len(levels)
  THEN [objs |-> SetOwn(os, target[2], PropName(levels[i]), value),
        thrown |-> FALSE]
  ELSE LET held == GetProp(os, target, PropName(levels[i]))
           fresh == Falsy(held)
           obj == IF fresh THEN ObjRef(Len(os) + 1) ELSE held
           os1 == IF fresh THEN Append(os, [proto |-> 0, props |-> <<>>]) ELSE os
       IN SetWalk(SetOwn(os1, target[2], PropName(levels[i]), obj),
                  obj, levels, value, i + 1)

\* lighter.ExpressionCompiler.set(exp, value, scope): the objects after it
Set(os, exp, value, scope) ==
  SetWalk(os, scope, ParseLevels(os, exp, scope), value, 1).objs

\* whether lighter.ExpressionCompiler.set(exp, value, scope) throws
SetThrows(os, exp, value, scope) ==
  SetWalk(os, scope, ParseLevels(os, exp, scope), value, 1).thrown

\* EXPRESSION against the whole of exp: the setter part before `=`, the getter
\* part, and the execution part between ( and ); ok = FALSE where compile
\* throws 'Invalid expression'
SplitExpression(exp) ==
  LET eqs == {k \in 1..Len(exp) : exp[k] = "="}
      cut == IF eqs = {} THEN 0 ELSE CHOOSE k \in eqs : TRUE
      rest == SubSeq(exp, cut + 1, Len(exp))
      opens == {k \in 1..Len(rest) : rest[k] = "("}
      open == IF opens = {} THEN Len(rest) + 1
              ELSE CHOOSE k \in opens : \A j \in opens : k <= j
      inner == SubSeq(rest, open + 1, Len(rest) - 1)
  IN [ok |-> /\ Cardinality(eqs) <= 1
             /\ cut # 1
             /\ open > 1
             /\ \A k \in 1..(open - 1) : rest[k] \notin {"(", "|", "="}
             /\ open <= Len(rest) =>
                  /\ rest[Len(rest)] = ")"
                  /\ \A k \in 1..Len(inner) : inner[k] # ")",
      setter |-> SubSeq(exp, 1, cut - 1),
      getter |-> SubSeq(rest, 1, open - 1),
      exec |-> open <= Len(rest),
      args |-> inner]

\* parts[1].match(GETTER_EXPRESSION), a match anywhere in the setter part: a
\* run of the characters of FIRST_LEVEL is one
HoldsGetter(toks) == \E k \in 1..Len(toks) : IsIdent(toks[k])

\* lighter.ExpressionCompiler.compile(exp, scope), up to the evaluator it
\* returns: the message of the Error it throws, "" for none
CompileChecks(exp) ==
  IF ~SplitExpression(exp).ok THEN "Invalid expression"
  ELSE IF SplitExpression(exp).setter # <<>>
          /\ ~HoldsGetter(SplitExpression(exp).setter)
  THEN "Invalid left hand-side expression"
  ELSE ""

RECURSIVE SplitArgs(_)
\* arg_exps.split(','), none for an empty list
SplitArgs(toks) ==
  IF toks = <<>> THEN <<>>
  ELSE LET commas == {k \in 1..Len(toks) : toks[k] = ","}
       IN IF commas = {} THEN <<toks>>
          ELSE LET k == CHOOSE x \in commas : \A y \in commas : x <= y
               IN <<SubSeq(toks, 1, k - 1)>>
                    \o SplitArgs(SubSeq(toks, k + 1, Len(toks)))

\* value.apply(scope, arg_values) for the functions of this model:
\* <<"function", 1>> returns its first argument; thrown when value is no
\* function
ApplyFunction(value, arg_values) ==
  IF value[1] # "function" THEN [value |-> Undefined, thrown |-> TRUE]
  ELSE [value |-> IF arg_values = <<>> THEN Undefined ELSE arg_values[1],
        thrown |-> FALSE]

\* the end of the compiled evaluator once the value is known: the setter part
\* and the return; nothing is set or returned after an exception
Evaluated(os, exp, scope, parts, result) ==
  IF result.thrown THEN [objs |-> os, value |-> Undefined, thrown |-> TRUE]
  ELSE IF parts.setter = <<>>
  THEN [objs |-> os, value |-> result.value, thrown |-> FALSE]
  ELSE [objs |-> Set(os, exp, result.value, scope),
        value |-> result.value,
        thrown |-> SetThrows(os, exp, result.value, scope)]

\* lighter.ExpressionCompiler.compile(exp, scope)(): the objects after the
\* evaluation, the value returned and whether it threw; for an exp that
\* EXPRESSION matches and whose setter part holds a getter
Compile(os, exp, scope) ==
  LET parts == SplitExpression(exp)
      value == Get(os, parts.getter, scope)
  IN Evaluated(os, exp, scope, parts,
       IF parts.exec
       THEN ApplyFunction(value,
              [n \in 1..Len(SplitArgs(parts.args)) |->
                 Get(os, SplitArgs(parts.args)[n], scope)])
       ELSE [value |-> value, thrown |-> FALSE])

RECURSIVE SplitAt(_, _)
\* toks.split(sep), for a separator that is one token
SplitAt(toks, sep) ==
  LET seps == {k \in 1..Len(toks) : toks[k] = sep}
  IN IF seps = {} THEN <<toks>>
     ELSE LET k == CHOOSE x \in seps : \A y \in seps : x <= y
          IN <<SubSeq(toks, 1, k - 1)>>
               \o SplitAt(SubSeq(toks, k + 1, Len(toks)), sep)

\* VALUE_EXPRESSION between `=` and the `,`, `;` or end that follows it:
\* digits, a quoted string, or a getter expression
IsValue(toks) ==
  /\ toks # <<>>
  /\ \/ \A k \in 1..Len(toks) : toks[k] \in DOMAIN Digits
     \/ Len(toks) >= 2 /\ Head(toks) \in Quotes /\ toks[Len(toks)] \in Quotes
     \/ IsGetter(toks)

\* ASSIGN_EXPRESSION against the whole of toks, the attribute name one run
\* of letters
IsAssign(toks) ==
  Len(toks) >= 3 /\ IsIdent(toks[1]) /\ toks[1] # ":" /\ toks[2] = "="
    /\ IsValue(SubSeq(toks, 3, Len(toks)))

\* where the `:` of a condition group stands in toks, the text before it a
\* getter expression with or without `!`; 0 when toks is no group
GroupColon(toks) ==
  LET colons ==
        {c \in 2..Len(toks) :
           /\ toks[c] = ":"
           /\ IsGetter(IF toks[1] = "!" THEN SubSeq(toks, 2, c - 1)
                       ELSE SubSeq(toks, 1, c - 1))
           /\ c < Len(toks)
           /\ \A n \in 1..Len(SplitAt(SubSeq(toks, c + 1, Len(toks)), ",")) :
                IsAssign(SplitAt(SubSeq(toks, c + 1, Len(toks)), ",")[n])}
  IN IF colons = {} THEN 0 ELSE CHOOSE c \in colons : \A d \in colons : c <= d

RECURSIVE LeadingGroups(_)
\* how many groups, each closed by `;` or by the end, ATTR_CONDITIONS
\* matches from the start of the text these segments were split from
LeadingGroups(segments) ==
  IF segments = <<>> \/ GroupColon(Head(segments)) = 0 THEN 0
  ELSE 1 + LeadingGroups(Tail(segments))

\* exp.match(ATTR_CONDITIONS).slice(1): the regular expression is not
\* global, so its three groups hold what the last repetition captured, the
\* third the last of the assignments after the first, or nothing
AttrConditionsMatch(exp) ==
  LET segments == SplitAt(exp, ";")
      n == LeadingGroups(segments)
      group == segments[n]
      c == GroupColon(group)
      assigns == SplitAt(SubSeq(group, c + 1, Len(group)), ",")
  IN IF n = 0 THEN <<>>
     ELSE <<SubSeq(group, 1, c - 1), assigns[1],
            IF Len(assigns) >= 2 THEN assigns[Len(assigns)] ELSE <<>>>>

RECURSIVE Conditions(_, _)
\* the forEach of parseAttrConditions over the matches: a match without `=`
\* opens a condition, one with `=` is an attribute of the condition open
Conditions(matches, conditions) ==
  IF matches = <<>> THEN conditions
  ELSE LET match == Head(matches)
       IN IF match = <<>> THEN Conditions(Tail(matches), conditions)
          ELSE IF \A k \in 1..Len(match) : match[k] # "="
          THEN Conditions(Tail(matches),
                 Append(conditions, [match |-> match, attribute_map_ |-> <<>>,
                                     attributes |-> <<>>]))
          ELSE Conditions(Tail(matches),
                 [conditions EXCEPT ![Len(conditions)].attribute_map_ =
                    Put(@, match[1], SubSeq(match, 3, Len(match)))])

\* lighter.ExpressionCompiler.parseAttrConditions(exp, scope)
ParseAttrConditions(exp) ==
  IF AttrConditionsMatch(exp) = <<>>
  THEN [thrown |-> TRUE, conditions |-> <<>>]
  ELSE [thrown |-> FALSE,
        conditions |-> Conditions(AttrConditionsMatch(exp), <<>>)]

\* a variant of Check that empties the attributes when the condition fails
CheckEmptying(os, condition, scope) ==
  LET value == ~Falsy(Get(os, condition.match, scope))
      passed == IF condition.match[1] = "!" THEN ~value ELSE value
  IN [value |-> passed,
      attributes |->
        IF passed
        THEN [name \in DOMAIN condition.attribute_map_
                         \cup DOMAIN condition.attributes |->
                IF name \in DOMAIN condition.attribute_map_
                THEN Get(os, condition.attribute_map_[name], scope)
                ELSE condition.attributes[name]]
        ELSE <<>>]

\* condition.check(): the value returned and the attributes it leaves
Check(os, condition, scope) ==
  LET value == ~Falsy(Get(os, condition.match, scope))
      passed == IF condition.match[1] = "!" THEN ~value ELSE value
  IN [value |-> passed,
      attributes |->
        IF passed
        THEN [name \in DOMAIN condition.attribute_map_
                         \cup DOMAIN condition.attributes |->
                IF name \in DOMAIN condition.attribute_map_
                THEN Get(os, condition.attribute_map_[name], scope)
                ELSE condition.attributes[name]]
        ELSE condition.attributes]

\* String(value), what String.prototype.replace makes of the value its
\* callback returns
ToText(value) ==
  IF value[1] = "boolean" THEN (IF value = True THEN "true" ELSE "false")
  ELSE PropName(value)

\* a variant of Filled that leaves the conversion to replace
FilledAsText(value) == ToText(value)

\* what the callback of fillPattern returns for the value of a binding
Filled(value) == IF value = Undefined THEN "" ELSE ToText(value)

RECURSIVE FillScan(_, _, _)
\* pat.replace(BINDINGS, callback): the texts the result is made of, each
\* `{{`, getter expression, `}}` replaced and every other token kept
FillScan(os, toks, scope) ==
  IF toks = <<>> THEN <<>>
  ELSE LET closings == {k \in 3..Len(toks) : toks[k] = "}}"}
           k == CHOOSE x \in closings : \A y \in closings : x <= y
       IN IF /\ Head(toks) = "{{"
             /\ closings # {}
             /\ IsGetter(SubSeq(toks, 2, k - 1))
          THEN <<Filled(Get(os, SubSeq(toks, 2, k - 1), scope))>>
                 \o FillScan(os, SubSeq(toks, k + 1, Len(toks)), scope)
          ELSE <<Head(toks)>> \o FillScan(os, Tail(toks), scope)

\* lighter.ExpressionCompiler.fillPattern(pat, scope)
FillPattern(os, pat, scope) == Str(Join(FillScan(os, pat, scope)))

(******************************* the repeater ******************************)

\* a slot of the state array: state[i] is undefined (never written), null
\* (the tombstone) or the pair [ item, repeater_scope ]
NoSlot == <<"undefined", Undefined, 0>>
Tombstone == <<"null", Null, 0>>
Pair(item, scope) == <<"pair", item, scope>>

\* state[i], i counted from 0
SlotAt(state, i) == IF i + 1 <= Len(state) THEN state[i + 1] ELSE NoSlot

\* state[i] = slot, the array growing to hold index i
SetSlot(state, i, slot) ==
  [k \in 1..(IF Len(state) > i + 1 THEN Len(state) ELSE i + 1) |->
     IF k = i + 1 THEN slot ELSE IF k <= Len(state) THEN state[k] ELSE NoSlot]

RECURSIVE CloneNode(_, _)
RECURSIVE CloneChildren(_, _, _, _)
\* node.cloneNode(true): the document with the copy in it, and the copy's id
CloneNode(doc, node) ==
  LET kids == CloneChildren(doc, doc[node].childNodes, 1, <<>>)
  IN [dom |-> Append(kids.dom, [doc[node] EXCEPT !.childNodes = kids.ids]),
      id |-> Len(kids.dom) + 1]

CloneChildren(doc, childNodes, i, ids) ==
  IF i > Len(childNodes) THEN [dom |-> doc, ids |-> ids]
  ELSE LET copy == CloneNode(doc, childNodes[i])
       IN CloneChildren(copy.dom, childNodes, i + 1, Append(ids, copy.id))

\* container.firstElementChild, 0 for none
FirstElementChild(doc, container) ==
  LET at == {k \in 1..Len(doc[container].childNodes) :
               doc[doc[container].childNodes[k]].nodeType = 1}
  IN IF at = {} THEN 0
     ELSE doc[container].childNodes[CHOOSE k \in at : \A j \in at : k <= j]

\* the `ready` events of a traversal's log
ReadyEvents(log) == SelectSeq(log, LAMBDA c : c[1] = "ready")

\* createItem_(item, i) of widget r in the world w = [dom, objs, arrs]: the
\* world with the clone and its scope in it, the scope, its element, and the
\* events emitted
CreateItem(w, r, defs, item, i) ==
  LET clone == CloneNode(w.dom, r.pattern)
      made == LighterScope(w.objs, w.arrs, clone.id, r.scope)
      keyed == SetOwn(SetOwn(made.objs, made.id, Join(r.target_key), item),
                      made.id, "$i", Num(i))
      bound == LiveWidgetPlaceholdersInDOM(clone.dom, keyed, made.arrs, defs,
                                           clone.id, made.id, TRUE)
  IN [dom |-> clone.dom, objs |-> keyed, arrs |-> bound.arrs,
      scope |-> made.id, element |-> clone.id,
      events |-> ReadyEvents(bound.log)]

\* the elements of an array-like value, as forEach and the loop of update see
\* them: those of an array, none of a value without a length
Elements(as, items) == IF items[1] = "array" THEN as[items[2]] ELSE <<>>

\* the body of the forEach of init_ once createItem_ has returned c:
\* container.appendChild(element) and state.push([ item, scope ])
InitItem(st, r, item, c) ==
  [st EXCEPT !.dom = [c.dom EXCEPT ![r.container].childNodes =
                                     Append(@, c.element)],
             !.objs = c.objs,
             !.arrs = c.arrs,
             !.state = Append(@, Pair(item, c.scope)),
             !.events = @ \o c.events,
             !.created = Append(@, c.scope)]

RECURSIVE InitEach(_, _, _, _, _)
\* the forEach of init_, from index i on;
\* st = [dom, objs, arrs, state, items_, events, created]
InitEach(st, r, defs, elements, i) ==
  IF i >= Len(elements) THEN st
  ELSE InitEach(InitItem(st, r, elements[i + 1],
                         CreateItem(st, r, defs, elements[i + 1], i)),
                r, defs, elements, i + 1)

\* init_() of widget r: the world, this.state and this.items_ after it
RepeaterInit_(w, r, defs) ==
  LET items == Get(w.objs, r.source_key, ObjRef(r.scope))
      cleared == [dom |-> [w.dom EXCEPT ![r.container].childNodes = <<>>],
                  objs |-> w.objs, arrs |-> w.arrs,
                  state |-> <<>>, items_ |-> items,
                  events |-> <<>>, created |-> <<>>]
  IN IF ~Falsy(items)
     THEN InitEach(cleared, r, defs, Elements(w.arrs, items), 0)
     ELSE cleared

\* fireChangeEvent_(): a `change` event dispatched on the container
FireChangeEvent(events, r) == Append(events, <<"change", 0, r.container, "">>)

\* removeItem(i): container.removeChild(container.childNodes[i]); removeChild
\* throws when there is no such child
RemoveItem(st, r, i) ==
  LET kids == st.dom[r.container].childNodes
  IN IF i + 1 > Len(kids) THEN [st EXCEPT !.thrown = TRUE]
     ELSE [st EXCEPT !.dom[r.container].childNodes =
                       SubSeq(kids, 1, i) \o SubSeq(kids, i + 2, Len(kids))]

\* a variant of InsertBefore that puts the element first
InsertFirst(kids, element, i) == <<element>> \o kids

\* container.insertBefore(element, container.childNodes[i + 1]), which
\* appends when there is no such child
InsertBefore(kids, element, i) ==
  IF i + 2 <= Len(kids)
  THEN SubSeq(kids, 1, i + 1) \o <<element>> \o SubSeq(kids, i + 2, Len(kids))
  ELSE Append(kids, element)

\* insertItem(i, item) once createItem_ has returned c; `made` is the new scope
InsertCreated(st, r, i, c) ==
  [st EXCEPT !.dom = [c.dom EXCEPT ![r.container].childNodes =
                                     InsertBefore(@, c.element, i)],
             !.objs = c.objs,
             !.arrs = c.arrs,
             !.events = @ \o c.events,
             !.created = Append(@, c.scope),
             !.made = c.scope]

\* insertItem(i, item)
InsertItem(st, r, defs, i, item) ==
  InsertCreated(st, r, i, CreateItem(st, r, defs, item, i))

\* state[i] = [ item, insertItem(i, item) ]; changed = true
StoreInserted(ins, i, item) ==
  [ins EXCEPT !.state = SetSlot(@, i, Pair(item, ins.made)),
              !.changed = TRUE]

\* after removeItem(i) of a removed item: state[i] = null; changed = true
StoreRemoved(rem, i) ==
  IF rem.thrown THEN rem
  ELSE [rem EXCEPT !.state = SetSlot(@, i, Tombstone), !.changed = TRUE]

\* after removeItem(i) of a replaced item: state[i] = [ item, insertItem(i,
\* item) ]; changed = true
StoreReplaced(rem, r, defs, i, item) ==
  IF rem.thrown THEN rem
  ELSE StoreInserted(InsertItem(rem, r, defs, i, item), i, item)

\* one round of the loop of update, for index i;
\* st = [dom, objs, arrs, state, items_, events, created, made, changed,
\*       thrown, updated, calls, rebuilt, walked]
UpdateIndex(st, r, defs, item, i) ==
  LET ref == SlotAt(st.state, i)
  IN IF ref = NoSlot
     THEN IF item # Undefined
          THEN StoreInserted(InsertItem(st, r, defs, i, item), i, item)
          ELSE st
     ELSE IF item = Undefined
     THEN IF ref # Tombstone
          THEN StoreRemoved(RemoveItem(st, r, i), i)
          ELSE st
     ELSE IF ref = Tombstone
     THEN [st EXCEPT !.thrown = TRUE]     \* ref[0] of null
     ELSE IF ref[2] # item
     THEN StoreReplaced(RemoveItem(st, r, i), r, defs, i, item)
     ELSE [st EXCEPT !.updated = Append(@, ref[3]),
                     !.calls = @ \o ScopeUpdate(st.objs, st.arrs, ref[3])]

RECURSIVE UpdateLoop(_, _, _, _, _)
\* the loop of update, from index i on, ended by an exception
UpdateLoop(st, r, defs, elements, i) ==
  IF i >= Len(elements) \/ st.thrown THEN st
  ELSE UpdateLoop(UpdateIndex(st, r, defs, elements[i + 1], i),
                  r, defs, elements, i + 1)

\* the branch of update for another source: init_(), fireChangeEvent_()
Rebuild(idle, again, r) ==
  [idle EXCEPT !.dom = again.dom, !.objs = again.objs,
               !.arrs = again.arrs, !.state = again.state,
               !.items_ = again.items_,
               !.events = FireChangeEvent(again.events, r),
               !.created = again.created,
               !.rebuilt = TRUE]

\* the end of update: if (changed) fireChangeEvent_(), not reached by an
\* exception
FireIfChanged(done, r) ==
  IF done.changed /\ ~done.thrown
  THEN [done EXCEPT !.events = FireChangeEvent(@, r)]
  ELSE done

\* update() of widget r in the world w: the world and the fields of the
\* widget after it, the events emitted, and what it did
RepeaterUpdate(w, r, defs) ==
  LET items == GetFrom(w.objs, r.scope, Join(r.source_key))
      idle == [dom |-> w.dom, objs |-> w.objs, arrs |-> w.arrs,
               state |-> r.state, items_ |-> r.items_,
               events |-> <<>>, created |-> <<>>, made |-> 0,
               changed |-> FALSE, thrown |-> FALSE,
               updated |-> <<>>, calls |-> <<>>, rebuilt |-> FALSE,
               walked |-> FALSE]
  IN IF items # r.items_
     THEN Rebuild(idle, RepeaterInit_(w, r, defs), r)
     ELSE IF Falsy(items) THEN idle
     ELSE FireIfChanged(UpdateLoop([idle EXCEPT !.walked = TRUE], r, defs,
                                   Elements(w.arrs, items), 0), r)

(*************************** the repeater at work ***************************)

\* <div><ul lt:repeat="...">text<li lt:bind="...">text</li></ul></div>
RepeaterPage ==
  << Node(1, "div", Attrs({}), <<2>>),
     Node(1, "ul", Attrs({"lt:repeat"}), <<3, 4>>),
     Node(3, "#text", Attrs({}), <<>>),
     Node(1, "li", Attrs({"lt:bind"}), <<5>>),
     Node(3, "#text", Attrs({}), <<>>) >>

\* the values of the lt:repeat attribute a run draws from
KeyLoopExps == { <<"t", " in ", "s">>, <<"t", " in ", "a", ".", "b">> }

\* the arrays a run starts from and the items it stores
ItemSeqs == UNION {[1..n -> Atoms] : n \in 0..MaxLen}

\* the registrations of lt:repeat and lt:bind (lighter.js, at load)
NativeWidgets ==
  Widget(Widget(<<>>, <<"@", "lt:repeat">>, <<"factory", 1, 1>>, TRUE),
         <<"@", "lt:bind">>, <<"factory", 3, 1>>, FALSE)

TheRepeater == <<"repeater", 1>>

\* the sequence the source expression of the repeater resolves to
Source == Get(objs, rw.source_key, ObjRef(rw.scope))

\* what an operation of the caller leaves in `last`
Mutated(op) == [op |-> op]

\* the world before the factory runs: a scope bound to the page, the source
\* unset (given = << undefined >>) or set to a new array of the given items
Given(exp, given) ==
  LET root == LighterScope(<<>>, <<>>, 1, 0)
  IN IF given # <<Undefined>>
     THEN [dom |-> RepeaterPage,
           objs |-> Set(root.objs, exp, ArrRef(2), ObjRef(1)),
           arrs |-> Append(root.arrs, given)]
     ELSE [dom |-> RepeaterPage, objs |-> root.objs, arrs |-> root.arrs]

\* new RepeaterAttributeWidget(container, source_key, target_key, scope)
\* before its init_()
NewRepeater(keys) ==
  [container |-> 2, scope |-> 1,
   source_key |-> keys.source, target_key |-> keys.target,
   pattern |-> FirstElementChild(RepeaterPage, 2),
   state |-> <<>>, items_ |-> Undefined]

\* the widget and the world once init_ has returned `made`, the widget added
\* to the scope
Constructed(r, made) ==
  /\ dom = made.dom
  /\ objs = made.objs
  /\ arrs = AddWidget(made.objs, made.arrs, 1, TheRepeater)
  /\ rw = [r EXCEPT !.state = made.state, !.items_ = made.items_]
  /\ last = [op |-> "new", events |-> made.events, created |-> made.created]

\* The lt:repeat factory: parseKeyLoopExpression, new RepeaterAttributeWidget
\* (so init_), and the widget returned to the traversal.
Factory(w, keys) ==
  /\ keys.ok
  /\ Constructed(NewRepeater(keys),
                 RepeaterInit_(w, NewRepeater(keys), NativeWidgets))

Init ==
  /\ widgets_ = NativeWidgets
  /\ hist = NoHistory
  /\ steps = 0
  /\ \E exp \in KeyLoopExps, given \in ItemSeqs \cup {<<Undefined>>} :
       Factory(Given(ParseKeyLoopExpression(exp).source, given),
               ParseKeyLoopExpression(exp))

\* items[i] = item, in place (item may be undefined)
SetItem ==
  /\ steps < MaxSteps
  /\ Source[1] = "array"
  /\ \E i \in 1..Len(arrs[Source[2]]), item \in Atoms \cup {Undefined} :
       /\ arrs[Source[2]][i] # item
       /\ arrs' = [arrs EXCEPT ![Source[2]][i] = item]
  /\ last' = Mutated("setItem")
  /\ steps' = steps + 1
  /\ UNCHANGED <<objs, dom, widgets_, rw, hist>>

\* items.push(item)
Push ==
  /\ steps < MaxSteps
  /\ Source[1] = "array"
  /\ Len(arrs[Source[2]]) < MaxLen
  /\ \E item \in Atoms : arrs' = [arrs EXCEPT ![Source[2]] = Append(@, item)]
  /\ last' = Mutated("push")
  /\ steps' = steps + 1
  /\ UNCHANGED <<objs, dom, widgets_, rw, hist>>

\* items.pop()
Pop ==
  /\ steps < MaxSteps
  /\ Source[1] = "array"
  /\ arrs[Source[2]] # <<>>
  /\ arrs' = [arrs EXCEPT ![Source[2]] = SubSeq(@, 1, Len(@) - 1)]
  /\ last' = Mutated("pop")
  /\ steps' = steps + 1
  /\ UNCHANGED <<objs, dom, widgets_, rw, hist>>

\* the source set to another array, of the same items when it was an array,
\* or unset
ReplaceSource ==
  /\ steps < MaxSteps
  /\ \/ /\ arrs' = Append(arrs, IF Source[1] = "array" THEN arrs[Source[2]]
                                ELSE <<Atom(1)>>)
        /\ objs' = Set(objs, rw.source_key, ArrRef(Len(arrs) + 1),
                       ObjRef(rw.scope))
     \/ /\ Source # Undefined
        /\ arrs' = arrs
        /\ objs' = Set(objs, rw.source_key, Undefined, ObjRef(rw.scope))
  /\ last' = Mutated("replaceSource")
  /\ steps' = steps + 1
  /\ UNCHANGED <<dom, widgets_, rw, hist>>

\* the widget and the world once update() has returned `done`
Updated(done) ==
  /\ dom' = done.dom
  /\ objs' = done.objs
  /\ arrs' = done.arrs
  /\ rw' = [rw EXCEPT !.state = done.state, !.items_ = done.items_]
  /\ last' = [op |-> "update",
              source |-> Source,
              elements |-> Elements(arrs, Source),
              before |-> [state |-> rw.state, items_ |-> rw.items_,
                          childNodes |-> dom[rw.container].childNodes],
              rebuilt |-> done.rebuilt, walked |-> done.walked,
              changed |-> done.changed, thrown |-> done.thrown,
              events |-> done.events, created |-> done.created,
              updated |-> done.updated, calls |-> done.calls]

\* update() of the repeater
RepeaterUpdateCall ==
  /\ steps < MaxSteps
  /\ Updated(RepeaterUpdate([dom |-> dom, objs |-> objs, arrs |-> arrs],
                            rw, widgets_))
  /\ steps' = steps + 1
  /\ UNCHANGED <<widgets_, hist>>

Next == SetItem \/ Push \/ Pop \/ ReplaceSource \/ RepeaterUpdateCall

Spec == Init /\ [][Next]_vars

\* the runs in which items are appended: the same widget and the same
\* operations of the caller, in runs of fewer steps
MaxAppendSteps == 3

AppendSetItem == steps < MaxAppendSteps /\ SetItem

AppendPush == steps < MaxAppendSteps /\ Push

AppendPop == steps < MaxAppendSteps /\ Pop

AppendUpdateCall == steps < MaxAppendSteps /\ RepeaterUpdateCall

AppendNext == AppendSetItem \/ AppendPush \/ AppendPop \/ AppendUpdateCall

SpecAppend == Init /\ [][AppendNext]_vars

(*************************** claims on the repeater **************************)

\* the `change` events among the events of an operation
ChangeEvents(events) == SelectSeq(events, LAMBDA e : e[1] = "change")

\* the last operation was an update() that found the source it had observed
\* last, an array, and so walked the slots
Walked == last.op = "update" /\ last.walked

\* the children of the container are the root elements of the slots' scopes,
\* slot by slot
Aligned(state, childNodes) ==
  /\ Len(childNodes) = Len(state)
  /\ \A k \in 1..Len(state) :
       /\ state[k][1] = "pair"
       /\ childNodes[k] = ScopeRootOf(state[k][3])

\* the indices (from 1) at which the source held another item than the slot
\* when update() was called
Differing ==
  {k \in 1..Len(last.elements) :
     SlotAt(last.before.state, k - 1)[2] # last.elements[k]}

\* update() was called on slots aligned with the container, one per item, and
\* exactly one item had been replaced in place by another item
OneReplaced ==
  /\ Walked
  /\ Aligned(last.before.state, last.before.childNodes)
  /\ Len(last.elements) = Len(last.before.state)
  /\ Cardinality(Differing) = 1
  /\ \A k \in Differing : last.elements[k] # Undefined

\* C1: when one item of the source was replaced in place, update() creates
\* one element and puts it at the child position of its slot, so that the
\* k-th child of the container is the root element of slot k's scope for
\* every k; every other slot keeps its scope, and that scope is updated.
C1_ReplacedInPlace ==
  OneReplaced =>
    /\ ~last.thrown
    /\ Len(last.created) = 1
    /\ Aligned(rw.state, dom[rw.container].childNodes)
    /\ \A k \in 1..Len(last.elements) :
         IF k \in Differing
         THEN rw.state[k] = Pair(last.elements[k], last.created[1])
         ELSE /\ rw.state[k] = last.before.state[k]
              /\ \E n \in 1..Len(last.updated) :
                   last.updated[n] = rw.state[k][3]

\* the scopes held by the slots of a state array
ScopesOf(state) == {state[k][3] : k \in {n \in 1..Len(state) : state[n][1] = "pair"}}

\* C2: when the source resolves to another array than the one observed last,
\* update() rebuilds: a new scope per item, slot i = (item i, new scope) with
\* the target key and $i set, the elements appended in source order, `change`
\* emitted once, no positional walk, no scope of before reused.
C2_RebuildOnNewSource ==
  (/\ last.op = "update"
   /\ last.source[1] = "array"
   /\ last.source # last.before.items_) =>
    /\ last.rebuilt /\ ~last.walked
    /\ rw.items_ = last.source
    /\ Len(ChangeEvents(last.events)) = 1
    /\ Len(last.created) = Len(last.elements)
    /\ Aligned(rw.state, dom[rw.container].childNodes)
    /\ \A k \in 1..Len(last.elements) :
         /\ rw.state[k] = Pair(last.elements[k], last.created[k])
         /\ objs[last.created[k]].props[Join(rw.target_key)] = last.elements[k]
         /\ objs[last.created[k]].props["$i"] = Num(k - 1)
    /\ ScopesOf(rw.state) \cap ScopesOf(last.before.state) = {}

\* C3: when the source expression resolves to the array observed last,
\* update() walks the slots; it does not rebuild, and emits `change` only if
\* a slot changed.
C3_SameSourceWalks ==
  (/\ last.op = "update"
   /\ last.source[1] = "array"
   /\ last.source = last.before.items_) =>
    /\ last.walked /\ ~last.rebuilt
    /\ (ChangeEvents(last.events) # <<>> => last.changed)

\* the indices (from 1) of the slots that held a pair whose item the source
\* no longer has: set to undefined in place, or beyond the new length
Vanished ==
  {k \in 1..Len(last.before.state) :
     /\ last.before.state[k][1] = "pair"
     /\ (k > Len(last.elements) \/ last.elements[k] = Undefined)}

\* C4: update() of an unchanged source removes the element of every slot
\* whose item the source no longer has, sets the slot to null and marks the
\* update as changed.
C4_VanishedTombstoned ==
  Walked =>
    \A k \in Vanished :
      /\ rw.state[k] = Tombstone
      /\ \A n \in 1..Len(dom[rw.container].childNodes) :
           dom[rw.container].childNodes[n]
             # ScopeRootOf(last.before.state[k][3])
      /\ last.changed

\* C5: update() of an unchanged source emits `change` once if a slot was
\* inserted, removed or replaced during the walk, and nothing if every
\* visited slot held the item of the source.
C5_ChangeIffChanged ==
  Walked =>
    /\ (last.changed => Len(ChangeEvents(last.events)) = 1)
    /\ (Differing = {} => last.events = <<>>)

\* slot k (from 1) of the state before update() held what the source holds
\* at k: a pair of that item, which is not undefined, or no pair and no item
Kept(k) ==
  LET slot == SlotAt(last.before.state, k - 1)
  IN IF slot[1] = "pair"
     THEN slot[2] = last.elements[k] /\ last.elements[k] # Undefined
     ELSE last.elements[k] = Undefined

\* update() walked a source that holds what the slots held and, after them,
\* items appended in place
Appended ==
  /\ Walked
  /\ Len(last.elements) > Len(last.before.state)
  /\ \A k \in 1..Len(last.before.state) : Kept(k)
  /\ \A k \in (Len(last.before.state) + 1)..Len(last.elements) :
       last.elements[k] # Undefined

C32_NoThrowOnAnySlot ==
  Walked =>
    /\ ~last.thrown
    /\ \A k \in 1..Len(last.before.state) :
         (/\ last.before.state[k] = Tombstone
          /\ k <= Len(last.elements)
          /\ last.elements[k] # Undefined) =>
           /\ rw.state[k][1] = "pair"
           /\ rw.state[k][2] = last.elements[k]
           /\ \E j \in 1..Len(last.created) : last.created[j] = rw.state[k][3]

\* the children of the container are the root elements of the scopes of the
\* pairs, in the order of their slots
PairsInOrder(state, childNodes) ==
  childNodes =
    [n \in 1..Len(SelectSeq(state, LAMBDA slot : slot[1] = "pair")) |->
       ScopeRootOf(SelectSeq(state, LAMBDA slot : slot[1] = "pair")[n][3])]

\* C33: while the source stays the same array, after the construction and
\* after every update() the elements of the pairs are the children of the
\* container, in slot order; an update() that tombstones a slot removes the
\* element of that slot.
C33_SlotsAligned ==
  /\ last.op = "new" => PairsInOrder(rw.state, dom[rw.container].childNodes)
  /\ Walked =>
       /\ PairsInOrder(rw.state, dom[rw.container].childNodes)
       /\ \A k \in 1..Len(last.before.state) :
            (/\ last.before.state[k][1] = "pair"
             /\ k <= Len(rw.state)
             /\ rw.state[k] = Tombstone) =>
              \A n \in 1..Len(dom[rw.container].childNodes) :
                dom[rw.container].childNodes[n]
                  # ScopeRootOf(last.before.state[k][3])

(********************** the expression compiler at work *********************)

\* A getter path, as its author means it: a first-level name followed by
\* segments, <<"dot", name>> for .name and <<"key", path>> for [path].
Name(n) == <<"name", n>>
Dot(n) == <<"dot", n>>
Key(path) == <<"key", path>>

RECURSIVE Text(_)
\* the tokens of the expression that spells a path
Text(path) ==
  IF path = <<>> THEN <<>>
  ELSE LET seg == Head(path)
       IN (CASE seg[1] = "name" -> <<seg[2]>>
             [] seg[1] = "dot" -> <<".", seg[2]>>
             [] seg[1] = "key" -> <<"[">> \o Text(seg[2]) \o <<"]">>)
          \o Text(Tail(path))

MaxSegments == 2
MaxExprSteps == 2

\* the segments and the paths a run draws from: k, f, a, a.b, a[k], a.b[k], ...
Segments == {Dot("b"), Key(<<Name("k")>>)}
Paths ==
  {<<Name("k")>>, <<Name("f")>>}
    \cup {<<Name("a")>> \o tail :
            tail \in UNION {[1..n -> Segments] : n \in 0..MaxSegments}}

\* the right-hand sides a run compiles: k, a.b, f(a.b)
RightSides ==
  { <<"k">>, <<"a", ".", "b">>, <<"f", "(", "a", ".", "b", ")">> }

\* the values a run assigns
Assigned == {Num(7), Null}

TheFunction == <<"function", 1>>

\* A parent scope (1) and a child forked from it (2).  The parent holds f, a
\* function, and k when kval is not undefined; owner (1 or 2) holds a when
\* aval is not undefined; when a is the object 3 it holds b when bval is not
\* undefined, and when b is the object 4 that holds b when cval is not
\* undefined.
With(props, name, value) ==
  IF value = Undefined THEN props ELSE Put(props, name, value)

Heap(owner, aval, bval, cval, kval) ==
  LET parent == LighterScope(<<>>, <<>>, 1, 0)
      child == LighterScope(parent.objs, parent.arrs, 2, 1)
      scopes == [child.objs EXCEPT
                   ![1].props = With(With(Put(@, "f", TheFunction),
                                          "k", kval),
                                     "a", IF owner = 1 THEN aval ELSE Undefined),
                   ![2].props = With(@, "a",
                                     IF owner = 2 THEN aval ELSE Undefined)]
  IN [objs |-> scopes
                 \o <<[proto |-> 0, props |-> With(<<>>, "b", bval)],
                      [proto |-> 0, props |-> With(<<>>, "b", cval)]>>,
      arrs |-> child.arrs]

\* the shapes of a: no a, a primitive, or the object 3 with or without b, b
\* being a primitive or the object 4 with or without its own b
Shapes ==
  {<<aval, Undefined, Undefined>> :
     aval \in {Undefined, Null, Num(0), Num(5), ObjRef(3)}}
    \cup {<<ObjRef(3), bval, Undefined>> : bval \in {Null, Num(5), ObjRef(4)}}
    \cup {<<ObjRef(3), ObjRef(4), Num(5)>>}

\* the heaps a run starts from
Heaps ==
  {Heap(owner, shape[1], shape[2], shape[3], kval) :
     owner \in {1, 2}, shape \in Shapes,
     kval \in {Undefined, Null, Num(0), Str("b")}}

\* the caller holds a path and one of the two scopes
ExprInit ==
  /\ dom = Page
  /\ widgets_ = <<>>
  /\ rw = NoRepeater
  /\ steps = 0
  /\ last = [op |-> "init"]
  /\ \E heap \in Heaps : objs = heap.objs /\ arrs = heap.arrs
  /\ \E path \in Paths, scope \in {1, 2} :
       hist = [path |-> path, scope |-> scope]

\* lighter.ExpressionCompiler.get(exp, scope)
GetCall ==
  /\ steps < MaxExprSteps
  /\ last' = [op |-> "get", before |-> objs,
              value |-> Get(objs, Text(hist.path), ObjRef(hist.scope))]
  /\ steps' = steps + 1
  /\ UNCHANGED <<objs, arrs, dom, widgets_, rw, hist>>

\* lighter.ExpressionCompiler.set(exp, value, scope)
SetCall ==
  /\ steps < MaxExprSteps
  /\ \E value \in Assigned :
       /\ objs' = Set(objs, Text(hist.path), value, ObjRef(hist.scope))
       /\ last' = [op |-> "set", before |-> objs, value |-> value,
                   thrown |-> SetThrows(objs, Text(hist.path), value,
                                        ObjRef(hist.scope))]
  /\ steps' = steps + 1
  /\ UNCHANGED <<arrs, dom, widgets_, rw, hist>>

\* what an evaluation `done` of the expression `path = right` leaves
Invoked(right, done) ==
  /\ objs' = done.objs
  /\ last' = [op |-> "compile", before |-> objs, right |-> right,
              value |-> done.value, thrown |-> done.thrown]

\* lighter.ExpressionCompiler.compile(exp, scope)(), exp being `path = right`
CompileCall ==
  /\ steps < MaxExprSteps
  /\ \E right \in RightSides :
       Invoked(right, Compile(objs, Text(hist.path) \o <<"=">> \o right,
                              ObjRef(hist.scope)))
  /\ steps' = steps + 1
  /\ UNCHANGED <<arrs, dom, widgets_, rw, hist>>

\* the factory of @lt:controller for the attribute value `name`, looked up in
\* the global object `window`: the message of the Error it throws, "" for
\* none, and the widget it returns
ControllerFactory(os, root, name, window) ==
  IF Falsy(Get(os, name, window))
  THEN [thrown |-> "Undefined controller", widget |-> Null]
  ELSE IF Get(os, name, window)[1] # "function"
  THEN [thrown |-> "Invalid controller", widget |-> Null]
  ELSE [thrown |-> "", widget |-> WidgetRef(root)]

\* the factory of @lt:controller called for an element whose lt:controller
\* attribute spells the path, the scope held standing for the global object
ControllerCall ==
  /\ steps < MaxExprSteps
  /\ last' = [op |-> "controller", before |-> objs,
              made |-> ControllerFactory(objs, 1, Text(hist.path),
                                          ObjRef(hist.scope))]
  /\ steps' = steps + 1
  /\ UNCHANGED <<objs, arrs, dom, widgets_, rw, hist>>

ExprNext == GetCall \/ SetCall \/ CompileCall \/ ControllerCall

SpecExpr == ExprInit /\ [][ExprNext]_vars

(******************** claims on the expression compiler *********************)

RECURSIVE Follow(_, _, _, _)
RECURSIVE Reach(_, _, _, _, _)
RECURSIVE ReachBy(_, _, _, _, _, _)

\* The value a path denotes in scope s: the segments followed one by one
\* from the scope by property reads, a bracket segment naming the property
\* its own path denotes in s.  It is undefined when the value at hand is null
\* or undefined, when the property is absent, and when a bracket key is
\* undefined - or null, if nullKeyAbsent.
Follow(os, path, s, nullKeyAbsent) ==
  Reach(os, ObjRef(s), path, s, nullKeyAbsent)

Reach(os, value, segs, s, nullKeyAbsent) ==
  IF segs = <<>> THEN value
  ELSE ReachBy(os, value,
               IF Head(segs)[1] = "key"
               THEN Follow(os, Head(segs)[2], s, nullKeyAbsent)
               ELSE Str(Head(segs)[2]),
               Tail(segs), s, nullKeyAbsent)

ReachBy(os, value, key, rest, s, nullKeyAbsent) ==
  IF \/ value \in {Null, Undefined}
     \/ key = Undefined
     \/ (nullKeyAbsent /\ key = Null)
     \/ value[1] # "object"
  THEN Undefined
  ELSE IF GetFrom(os, value[2], PropName(key)) = Undefined THEN Undefined
  ELSE Reach(os, GetFrom(os, value[2], PropName(key)), rest, s, nullKeyAbsent)

\* the values the bracket keys of a path evaluate to in scope s
KeyValues(os, path, s) ==
  {Follow(os, path[n][2], s, FALSE) :
     n \in {m \in 1..Len(path) : path[m][1] = "key"}}

\* the scope the caller holds, and the text of its path
HeldScope == ObjRef(hist.scope)
HeldText == Text(hist.path)

\* C11: set on a child scope, for a path of several segments whose first
\* segment only the parent defines, leaves what get returns for the path on
\* the parent as it was.
C11_ParentUntouched ==
  (/\ last.op = "set"
   /\ hist.scope = 2
   /\ Len(hist.path) >= 2
   /\ hist.path[1][2] \in DOMAIN last.before[1].props
   /\ hist.path[1][2] \notin DOMAIN last.before[2].props) =>
    Get(objs, HeldText, ObjRef(1)) = Get(last.before, HeldText, ObjRef(1))

\* C17, as claimed: get returns the value the path denotes, undefined when a
\* segment is absent, an intermediate value is null or undefined or a
\* bracket key is undefined.
C17_GetDenotes ==
  last.op = "get" => last.value = Follow(last.before, hist.path, hist.scope, FALSE)

\* C17, amended: as claimed, and undefined also when a bracket key is null.
C17_GetDenotesNullKeyAbsent ==
  last.op = "get" => last.value = Follow(last.before, hist.path, hist.scope, TRUE)

\* a get through a dot and a bracket segment that found a value
C17_Witness ==
  /\ last.op = "get"
  /\ Len(hist.path) = 3
  /\ \E n \in 2..3 : hist.path[n][1] = "key"
  /\ last.value = Num(5)

\* C18: set followed by get returns the value set, for every path none of
\* whose bracket keys is undefined.
C18_RoundTrip ==
  (/\ last.op = "set"
   /\ Undefined \notin KeyValues(last.before, hist.path, hist.scope)) =>
    /\ ~last.thrown
    /\ Get(objs, HeldText, HeldScope) = last.value

\* C19: the evaluator of `L = R` returns the value of R and assigns it at
\* exactly the path L: the objects are those set(L, value, scope) leaves, and
\* get(L, scope) returns the value.  Stated for the evaluations that did not
\* throw and the paths whose bracket keys are neither undefined nor null.
C19_AssignsAtLeft ==
  (/\ last.op = "compile"
   /\ ~last.thrown
   /\ KeyValues(last.before, hist.path, hist.scope) \cap {Undefined, Null} = {}) =>
    /\ objs = Set(last.before, HeldText, last.value, HeldScope)
    /\ Get(objs, HeldText, HeldScope) = last.value

\* C20: set changes nothing and does not throw when a bracket key before the
\* last segment of the path is undefined.
C20_NoOpOnUndefinedKey ==
  (/\ last.op = "set"
   /\ \E n \in 2..(Len(hist.path) - 1) :
        /\ hist.path[n][1] = "key"
        /\ Follow(last.before, hist.path[n][2], hist.scope, FALSE) = Undefined) =>
    /\ objs = last.before
    /\ ~last.thrown

(***************************** event emitters *******************************)

\* A listener function is <<"listener", body>>, the body one of
\*   "plain"  returns undefined        "false"  returns false
\*   "zero"   returns 0                "late"   returns undefined
\*   "on"     subscribes the listener "late" to the type it is called for
\*   "once"   subscribes itself again, with once, to the type it is called for
\*   "emit"   emits the type it is called for on the same emitter
\*   "off"    unsubscribes the listener "plain" from the type it is called for
\* or <<"watch", fn, scope>>, the closure that scope.$watch creates.
Listener(body) == <<"listener", body>>

\* An entry of a listeners array is the object that `on` pushes; `reg` is
\* its identity, the number of the call of `on` that created it.
Item(fn, ctx, once, reg) ==
  [listener |-> fn, ctx |-> IF Falsy(ctx) THEN Null ELSE ctx,
   once |-> once, reg |-> reg]

\* this.$$event_listeners_ of an emitter, and its entry for a type
Registry(os, emitter) == GetFrom(os, emitter, "$$event_listeners_")[2]
ListenersOf(os, as, emitter, type) ==
  IF GetFrom(os, Registry(os, emitter), type) = Undefined THEN <<>>
  ELSE as[GetFrom(os, Registry(os, emitter), type)[2]]

\* new lighter.events.EventEmitter(): the objects with the emitter and its
\* empty registry appended
EventEmitter(os) ==
  os \o << [proto |-> 0,
            props |-> Put(<<>>, "$$event_listeners_", ObjRef(Len(os) + 2))],
           [proto |-> 0, props |-> <<>>] >>

\* listeners.filter(f): the items that f keeps, in order
RECURSIVE Filter(_, _)
Filter(listeners, kept) ==
  IF listeners = <<>> THEN <<>>
  ELSE (IF Head(listeners).reg \in kept THEN <<Head(listeners)>> ELSE <<>>)
         \o Filter(Tail(listeners), kept)

\* emitter.on(type, fn, ctx, once) in the state st of a running operation:
\* the push is on the array the registry holds for the type, a new array
\* when it holds none
On(st, emitter, type, fn, ctx, once) ==
  LET held == GetFrom(st.objs, Registry(st.objs, emitter), type)
      ref == IF Falsy(held) THEN ArrRef(Len(st.arrs) + 1) ELSE held
      as1 == IF Falsy(held) THEN Append(st.arrs, <<>>) ELSE st.arrs
      item == Item(fn, ctx, once, st.regs + 1)
  IN [st EXCEPT
        !.arrs = [as1 EXCEPT ![ref[2]] = Append(@, item)],
        !.objs = SetOwn(st.objs, Registry(st.objs, emitter), type, ref),
        !.regs = st.regs + 1,
        !.invoked = Append(@, 0),
        !.log = Append(@, [kind |-> "on", type |-> type, item |-> item])]

\* emitter.once(type, fn, ctx)
Once(st, emitter, type, fn, ctx) == On(st, emitter, type, fn, ctx, True)

\* an off that leaves the registry as it is
OffKeeping(st, emitter, type, fn) ==
  [st EXCEPT !.log = Append(@, [kind |-> "off", type |-> type, fn |-> fn,
                                regs |-> st.regs])]

\* emitter.off(type, fn): the registry gets a new, filtered array
Off(st, emitter, type, fn) ==
  LET listeners == ListenersOf(st.objs, st.arrs, emitter, type)
      kept == {listeners[n].reg : n \in {m \in 1..Len(listeners) :
                                           listeners[m].listener # fn}}
  IN [st EXCEPT
        !.arrs = Append(st.arrs, Filter(listeners, kept)),
        !.objs = SetOwn(st.objs, Registry(st.objs, emitter), type,
                        ArrRef(Len(st.arrs) + 1)),
        !.log = Append(@, [kind |-> "off", type |-> type, fn |-> fn,
                           regs |-> st.regs])]

\* what a listener function without side effects returns
ReturnOf(fn) ==
  CASE fn = Listener("false") -> False
    [] fn = Listener("zero") -> Num(0)
    [] OTHER -> Undefined

\* the rest of the closure of $watch after fn: this.$update(), whose calls
\* the log keeps
WatchUpdate(st, this) ==
  [st EXCEPT !.log = Append(@, [kind |-> "$update", scope |-> this,
                                calls |-> ScopeUpdate(st.objs, st.arrs, this[2])])]

\* a closure of $watch that returns what fn returned without updating when
\* that is false
WatchListenerLeavingOnFalse(st, fn, this) ==
  IF Falsy(fn) THEN WatchUpdate([st EXCEPT !.result = Undefined], this)
  ELSE IF ReturnOf(fn) = False
  THEN [st EXCEPT !.log = Append(@, [kind |-> "fn", fn |-> fn, ctx |-> this]),
                  !.result = False]
  ELSE WatchUpdate([st EXCEPT
                      !.log = Append(@, [kind |-> "fn", fn |-> fn, ctx |-> this]),
                      !.result = ReturnOf(fn)], this)

\* the closure that $watch subscribes, called with `this`: fn.call(this, data)
\* if there is an fn, then this.$update(); it returns what fn returned
WatchListener(st, fn, this) ==
  IF Falsy(fn) THEN WatchUpdate([st EXCEPT !.result = Undefined], this)
  ELSE WatchUpdate([st EXCEPT
                      !.log = Append(@, [kind |-> "fn", fn |-> fn, ctx |-> this]),
                      !.result = ReturnOf(fn)], this)

\* scope.$watch(source, type, ...args): a lone boolean argument is the once
\* flag
ScopeWatch(st, scope, source, type, args) ==
  IF Len(args) = 1 /\ args[1][1] = "boolean"
  THEN On(st, source, type, <<"watch", Null, scope>>, ObjRef(scope), args[1])
  ELSE On(st, source, type,
          <<"watch", IF Len(args) >= 1 THEN args[1] ELSE Undefined, scope>>,
          ObjRef(scope),
          IF Len(args) >= 2 THEN args[2] ELSE Undefined)

\* a filter that keeps every item
KeepAll(listeners) ==
  {listeners[n].reg : n \in 1..Len(listeners)}

\* the items that listeners.filter(item => !item.once) keeps
KeepLasting(listeners) ==
  {listeners[n].reg : n \in {m \in 1..Len(listeners) : Falsy(listeners[m].once)}}

\* the number of emissions begun in a log
Emissions(log) == Cardinality({n \in 1..Len(log) : log[n].kind = "emit"})

RECURSIVE Emit(_, _, _)
RECURSIVE EmitLoop(_, _, _, _, _, _)
RECURSIVE Call(_, _, _, _)

\* emit, up to its loop: the registry holds the filtered copy of listeners
Begun(st, emitter, type, listeners, eid) ==
  [st EXCEPT
     !.arrs = Append(st.arrs, Filter(listeners, KeepLasting(listeners))),
     !.objs = SetOwn(st.objs, Registry(st.objs, emitter), type,
                     ArrRef(Len(st.arrs) + 1)),
     !.log = Append(@, [kind |-> "emit", eid |-> eid, type |-> type,
                        items |-> listeners])]

\* the loop of emit arriving at item i: the log keeps what the registry
\* holds for the type at this moment
Entered(st, emitter, type, item, i, eid) ==
  [st EXCEPT
     !.invoked[item.reg] = @ + 1,
     !.log = Append(@, [kind |-> "call", eid |-> eid, index |-> i,
                        item |-> item,
                        registered |-> ListenersOf(st.objs, st.arrs,
                                                   emitter, type)])]

\* item.listener.call(item.ctx, data), its result in st.result
Call(st, emitter, type, item) ==
  CASE item.listener[1] = "watch" ->
         WatchListener(st, item.listener[2], item.ctx)
    [] item.listener = Listener("on") ->
         [On(st, emitter, type, Listener("late"), Undefined, Undefined)
            EXCEPT !.result = Undefined]
    [] item.listener = Listener("once") ->
         [Once(st, emitter, type, item.listener, Undefined)
            EXCEPT !.result = Undefined]
    [] item.listener = Listener("emit") ->
         [Emit(st, emitter, type) EXCEPT !.result = Undefined]
    [] item.listener = Listener("off") ->
         [Off(st, emitter, type, Listener("plain")) EXCEPT !.result = Undefined]
    [] OTHER -> [st EXCEPT !.result = ReturnOf(item.listener)]

\* the emission over
Ended(st, eid) ==
  [st EXCEPT !.log = Append(@, [kind |-> "end", eid |-> eid])]

\* a loop that breaks on every falsy result
ReturnedBreakingOnFalsy(st, emitter, type, listeners, i, eid) ==
  IF Falsy(st.result)
  THEN Ended([st EXCEPT !.log = Append(@, [kind |-> "return", eid |-> eid,
                                           index |-> i, result |-> st.result])],
             eid)
  ELSE EmitLoop([st EXCEPT !.log = Append(@, [kind |-> "return", eid |-> eid,
                                              index |-> i, result |-> st.result])],
                emitter, type, listeners, i + 1, eid)

\* the loop of emit after the call of item i: `result === false` breaks
Returned(st, emitter, type, listeners, i, eid) ==
  IF st.result = False
  THEN Ended([st EXCEPT !.log = Append(@, [kind |-> "return", eid |-> eid,
                                           index |-> i, result |-> st.result])],
             eid)
  ELSE EmitLoop([st EXCEPT !.log = Append(@, [kind |-> "return", eid |-> eid,
                                              index |-> i, result |-> st.result])],
                emitter, type, listeners, i + 1, eid)

\* the loop of emit over the array it read from the registry, from item i
EmitLoop(st, emitter, type, listeners, i, eid) ==
  IF i > Len(listeners) THEN Ended(st, eid)
  ELSE Returned(Call(Entered(st, emitter, type, listeners[i], i, eid),
                     emitter, type, listeners[i]),
                emitter, type, listeners, i, eid)

\* emitter.emit(type, data)
Emit(st, emitter, type) ==
  IF Falsy(GetFrom(st.objs, Registry(st.objs, emitter), type)) THEN st
  ELSE EmitLoop(Begun(st, emitter, type,
                      ListenersOf(st.objs, st.arrs, emitter, type),
                      Emissions(st.log) + 1),
                emitter, type,
                ListenersOf(st.objs, st.arrs, emitter, type),
                1, Emissions(st.log) + 1)

(************************ event emitters at work ***************************)

\* the number of calls of on, off, $watch and emit in a run
MaxEventSteps == 4

TheScope == 1
TheEmitter == 2
Types == {"t", "u"}

\* the listeners the caller subscribes, with the once argument of each
Subscriptions(type) ==
  IF type = "u" THEN {<<Listener("plain"), Undefined>>}
  ELSE {<<Listener("plain"), Undefined>>, <<Listener("plain"), True>>,
        <<Listener("false"), Undefined>>, <<Listener("zero"), Undefined>>,
        <<Listener("on"), Undefined>>, <<Listener("once"), True>>,
        <<Listener("emit"), True>>, <<Listener("off"), Undefined>>}

\* the arguments of $watch after source and type
WatchArgs ==
  {<<>>, <<Listener("false")>>, <<Listener("plain"), True>>, <<True>>}

\* one scope with one widget, and one emitter
EventsInit ==
  /\ dom = Page
  /\ LET made == LighterScope(<<>>, <<>>, 1, 0)
     IN /\ objs = EventEmitter(made.objs)
        /\ arrs = AddWidget(made.objs, made.arrs, TheScope, WidgetRef(1))
  /\ widgets_ = <<>>
  /\ rw = NoRepeater
  /\ last = [op |-> "init"]
  /\ hist = [regs |-> 0, invoked |-> <<>>]
  /\ steps = 0

\* the state in which an operation starts
Running ==
  [objs |-> objs, arrs |-> arrs, regs |-> hist.regs, invoked |-> hist.invoked,
   log |-> <<>>, result |-> Undefined]

\* the state an operation leaves
Left(op, type, args, st) ==
  /\ objs' = st.objs
  /\ arrs' = st.arrs
  /\ hist' = [regs |-> st.regs, invoked |-> st.invoked]
  /\ last' = [op |-> op, type |-> type, args |-> args, log |-> st.log,
              before |-> [objs |-> objs, arrs |-> arrs]]
  /\ steps' = steps + 1
  /\ UNCHANGED <<dom, widgets_, rw>>

\* emitter.on(type, fn) and emitter.once(type, fn)
OnCall ==
  /\ steps < MaxEventSteps
  /\ \E type \in Types : \E sub \in Subscriptions(type) :
       Left("on", type, sub,
            IF sub[2] = True
            THEN Once(Running, TheEmitter, type, sub[1], Undefined)
            ELSE On(Running, TheEmitter, type, sub[1], Undefined, Undefined))

\* emitter.off(type, fn), and emitter.off(type) where fn is undefined
OffCall ==
  /\ steps < MaxEventSteps
  /\ \E fn \in {Listener("plain"), Undefined} :
       Left("off", "t", <<fn>>, Off(Running, TheEmitter, "t", fn))

\* scope.$watch(emitter, type, ...)
WatchCall ==
  /\ steps < MaxEventSteps
  /\ \E args \in WatchArgs :
       Left("$watch", "t", args,
            ScopeWatch(Running, TheScope, TheEmitter, "t", args))

\* emitter.emit(type)
EmitCall ==
  /\ steps < MaxEventSteps
  /\ \E type \in Types : Left("emit", type, <<>>, Emit(Running, TheEmitter, type))

EventsNext == OnCall \/ OffCall \/ WatchCall \/ EmitCall

SpecEvents == EventsInit /\ [][EventsNext]_vars

(************************ claims on event emitters *************************)

\* the log of the last operation, and positions in it
Log == last.log
EmitsIn(log) == {n \in 1..Len(log) : log[n].kind = "emit"}
CallsOf(log, eid) ==
  {n \in 1..Len(log) : log[n].kind = "call" /\ log[n].eid = eid}
ReturnsOf(log, eid) ==
  {n \in 1..Len(log) : log[n].kind = "return" /\ log[n].eid = eid}
EndOf(log, eid) ==
  CHOOSE n \in 1..Len(log) : log[n].kind = "end" /\ log[n].eid = eid
\* the registrations that listeners made between positions b and e
AddedIn(log, b, e) == {n \in (b + 1)..(e - 1) : log[n].kind = "on"}
\* the emissions of a type that begin after position p
EmitsAfter(log, p, type) ==
  {n \in EmitsIn(log) : n > p /\ log[n].type = type}

Regs(items) == {items[n].reg : n \in 1..Len(items)}
OneShots(items) ==
  {items[n].reg : n \in {m \in 1..Len(items) : ~Falsy(items[m].once)}}

\* what the emitter holds for a type now, and held before the last operation
RegisteredNow(type) == ListenersOf(objs, arrs, TheEmitter, type)
RegisteredBefore(type) ==
  ListenersOf(last.before.objs, last.before.arrs, TheEmitter, type)

\* C12, for the emission that begins at position b of the log: at every call
\* of a listener the one-shot listeners of the emission are out of the
\* registry; the listeners called are those the registry held when emit was
\* called; a listener subscribed during the emission is not called in it and
\* is among the listeners of the next emission of the type (registered, while
\* there is none).
SnapshotEmission(log, b) ==
  /\ \A c \in CallsOf(log, log[b].eid) :
       /\ OneShots(log[b].items) \cap Regs(log[c].registered) = {}
       /\ log[c].item = log[b].items[log[c].index]
  /\ \A p \in AddedIn(log, b, EndOf(log, log[b].eid)) :
       /\ \A c \in CallsOf(log, log[b].eid) : log[c].item.reg # log[p].item.reg
       /\ IF EmitsAfter(log, p, log[p].type) = {}
          THEN log[p].item.reg \in Regs(RegisteredNow(log[p].type))
          ELSE \E n \in EmitsAfter(log, p, log[p].type) :
                 /\ \A m \in EmitsAfter(log, p, log[p].type) : n <= m
                 /\ log[p].item.reg \in Regs(log[n].items)

C12_EmitOverSnapshot ==
  last.op = "emit" =>
    /\ Log # <<>> => Log[1].items = RegisteredBefore(last.type)
    /\ \A b \in EmitsIn(Log) : SnapshotEmission(Log, b)

\* an emission with a one-shot listener during which a listener subscribed
\* another, which stays registered
C12_Witness ==
  /\ last.op = "emit"
  /\ Log # <<>>
  /\ Len(Log[1].items) >= 2
  /\ OneShots(Log[1].items) # {}
  /\ \E p \in AddedIn(Log, 1, Len(Log)) :
       /\ Log[p].item.listener = Listener("late")
       /\ Log[p].item.reg \in Regs(RegisteredNow(last.type))
       /\ hist.invoked[Log[p].item.reg] = 0

\* the items of an emission before which a listener returned false
Stopped(log, eid) ==
  {n \in 1..Len(log[CHOOSE b \in EmitsIn(log) : log[b].eid = eid].items) :
     \E r \in ReturnsOf(log, eid) : log[r].index < n /\ log[r].result = False}

\* C13, for the emission that begins at position b of the log: each listener
\* of the snapshot is called once, unless a listener before it returned
\* false, and then not at all; the calls are in the order of the snapshot.
OrderedEmission(log, b) ==
  /\ \A n \in 1..Len(log[b].items) :
       Cardinality({c \in CallsOf(log, log[b].eid) : log[c].index = n})
         = IF n \in Stopped(log, log[b].eid) THEN 0 ELSE 1
  /\ \A c, d \in CallsOf(log, log[b].eid) :
       /\ c < d => log[c].index < log[d].index
       /\ log[c].item = log[b].items[log[c].index]

\* C13: emit calls the listeners of the snapshot in the order subscribed,
\* each once, up to the first that returns the boolean false; the listeners
\* of the other types are neither called nor removed.
C13_InOrderUntilFalse ==
  last.op = "emit" =>
    /\ \A b \in EmitsIn(Log) : OrderedEmission(Log, b)
    /\ \A u \in Types \ {last.type} :
         /\ RegisteredNow(u) = RegisteredBefore(u)
         /\ \A n \in 1..Len(Log) :
              Log[n].kind = "call" => Log[n].item.reg \notin Regs(RegisteredBefore(u))

\* an emission whose first listener returned 0, whose second returned false
\* and whose third was not called, with a listener of the other type
\* registered
C13_Witness ==
  /\ last.op = "emit"
  /\ Log # <<>>
  /\ Len(Log[1].items) = 3
  /\ \E r \in ReturnsOf(Log, 1) : Log[r].index = 1 /\ Log[r].result = Num(0)
  /\ \E r \in ReturnsOf(Log, 1) : Log[r].index = 2 /\ Log[r].result = False
  /\ Cardinality(CallsOf(Log, 1)) = 2

\* C14: after an emission every one-shot listener of its snapshot has been
\* called exactly once since it was subscribed, and a one-shot listener that
\* subscribed itself again during its call is not called a second time in
\* that emission.
C14_OnceExactlyOnce ==
  last.op = "emit" =>
    \A b \in EmitsIn(Log) :
      /\ \A r \in OneShots(Log[b].items) : hist.invoked[r] = 1
      /\ \A p \in AddedIn(Log, b, EndOf(Log, Log[b].eid)) :
           Log[p].item.listener = Listener("once") =>
             \A c \in CallsOf(Log, Log[b].eid) :
               Log[c].item.reg # Log[p].item.reg

\* the closure of $watch and its parts
IsWatch(item) == item.listener[1] = "watch"
WatchFn(item) == item.listener[2]
WatchScope(item) == ObjRef(item.listener[3])

\* the log after the call at position c of a closure of $watch: fn, if there
\* is one, called with the scope as `this`; then one $update() of the scope;
\* then the return of what fn returned
WatchServed(log, c) ==
  IF Falsy(WatchFn(log[c].item))
  THEN /\ Len(log) >= c + 2
       /\ log[c + 1].kind = "$update"
       /\ log[c + 1].scope = WatchScope(log[c].item)
       /\ log[c + 2].kind = "return"
       /\ log[c + 2].result = Undefined
  ELSE /\ Len(log) >= c + 3
       /\ log[c + 1].kind = "fn"
       /\ log[c + 1].fn = WatchFn(log[c].item)
       /\ log[c + 1].ctx = WatchScope(log[c].item)
       /\ log[c + 2].kind = "$update"
       /\ log[c + 2].scope = WatchScope(log[c].item)
       /\ log[c + 3].kind = "return"
       /\ log[c + 3].result = ReturnOf(WatchFn(log[c].item))

\* whether the arguments of $watch carry the once flag
OnceFlag(args) ==
  \/ Len(args) = 1 /\ args[1] = True
  \/ Len(args) = 2 /\ args[2] = True

\* C15, as claimed: in every emission of the type each watch subscribed to
\* it is served: fn called with the scope as context, then $update() run
\* once.
C15_ServedOnEachEmission ==
  last.op = "emit" =>
    \A b \in EmitsIn(Log) :
      \A n \in 1..Len(Log[b].items) :
        IsWatch(Log[b].items[n]) =>
          \E c \in CallsOf(Log, Log[b].eid) :
            Log[c].index = n /\ WatchServed(Log, c)

\* C15, amended: $watch subscribes a closure with the scope as context, as a
\* one-shot listener exactly when the once flag is given in the 4-argument
\* or the 3-argument boolean form; each time an emission calls the closure
\* the watch is served, whatever fn returns; a watch with the once flag is
\* out of the registry after the first emission of the type, called or not,
\* and is called at most once.
C15_ServedWhenCalled ==
  /\ last.op = "$watch" =>
       /\ IsWatch(Log[1].item)
       /\ Log[1].item.ctx = ObjRef(TheScope)
       /\ WatchScope(Log[1].item) = ObjRef(TheScope)
       /\ ~Falsy(Log[1].item.once) <=> OnceFlag(last.args)
       /\ Log[1].item.reg \in Regs(RegisteredNow(last.type))
  /\ last.op = "emit" =>
       /\ \A c \in 1..Len(Log) :
            (Log[c].kind = "call" /\ IsWatch(Log[c].item)) => WatchServed(Log, c)
       /\ \A b \in EmitsIn(Log) :
            \A n \in 1..Len(Log[b].items) :
              IsWatch(Log[b].items[n]) =>
                IF Falsy(Log[b].items[n].once)
                THEN Log[b].items[n].reg \in Regs(RegisteredNow(last.type))
                ELSE /\ Log[b].items[n].reg \notin Regs(RegisteredNow(last.type))
                     /\ hist.invoked[Log[b].items[n].reg] <= 1

\* an emission that called, after another listener, a watch whose fn
\* returned false, and a one-shot watch: the widget of the scope was updated
\* for each
C15_Witness ==
  /\ last.op = "emit"
  /\ \E c, d \in 1..Len(Log) :
       /\ Log[c].kind = "call" /\ IsWatch(Log[c].item)
       /\ WatchFn(Log[c].item) = Listener("false")
       /\ Log[c + 2].kind = "$update"
       /\ Log[c + 2].calls = <<WidgetRef(1)>>
       /\ Log[d].kind = "call" /\ IsWatch(Log[d].item)
       /\ ~Falsy(Log[d].item.once)
       /\ Log[d + 1].kind = "$update"

\* the items of `listeners` that are no registration of fn, in order
Without(listeners, fn) ==
  SelectSeq(listeners, LAMBDA item : item.listener # fn)

\* C30: off(type, fn) leaves of the type the registrations of the other
\* listeners, in order, and off(type) leaves none; the other types keep
\* theirs.
C30_OffRemoves ==
  last.op = "off" =>
    /\ RegisteredNow(last.type)
         = IF last.args[1] = Undefined THEN <<>>
           ELSE Without(RegisteredBefore(last.type), last.args[1])
    /\ \A u \in Types \ {last.type} : RegisteredNow(u) = RegisteredBefore(u)

(*************************** claims on the registry ************************)

\* the registrations of a name's type and bare name among defs, by position
Registrations(defs, name) ==
  {i \in 1..Len(defs) :
     /\ defs[i].type = (IF Head(name) = "@" THEN ATTRIBUTE ELSE ELEMENT)
     /\ <<defs[i].name>> = (IF Head(name) = "@" THEN Tail(name) ELSE name)}

\* the factory of the earliest of them, null without any
Earliest(defs, name) ==
  IF Registrations(defs, name) = {} THEN Null
  ELSE defs[CHOOSE i \in Registrations(defs, name) :
              \A j \in Registrations(defs, name) : i <= j].factory

\* C27: a lookup returns the factory of the earliest registration of the
\* type and name, null without one, and leaves the definitions as they
\* were; a registration changes no lookup that found a factory before it.
C27_LookupEarliest ==
  /\ last.op = "lookup" =>
       /\ last.value = Earliest(last.before, last.name)
       /\ widgets_ = last.before
  /\ last.op = "widget" =>
       /\ SubSeq(widgets_, 1, Len(last.before)) = last.before
       /\ \A name \in Sought :
            WidgetLookup(last.before, name) # Null =>
              WidgetLookup(widgets_, name) = WidgetLookup(last.before, name)

\* a lookup of `span` with two element definitions and an attribute
\* definition of that name registered, the attribute's first
C27_Witness ==
  /\ last.op = "lookup"
  /\ last.name = <<"span">>
  /\ Cardinality(Registrations(widgets_, <<"span">>)) = 2
  /\ Registrations(widgets_, <<"@", "span">>) = {1}
  /\ last.value = <<"factory", 5, 1>>

\* C28: the factory of lt:controller throws the error of an undefined
\* controller when the name resolves to nothing (undefined or null) and the
\* error of an invalid controller when it resolves to a value that is no
\* function, and returns no widget in either case.
C28_ControllerErrors ==
  last.op = "controller" =>
    /\ Follow(last.before, hist.path, hist.scope, TRUE) \in {Undefined, Null} =>
         last.made = [thrown |-> "Undefined controller", widget |-> Null]
    /\ ( /\ Follow(last.before, hist.path, hist.scope, TRUE) \notin {Undefined, Null}
         /\ Follow(last.before, hist.path, hist.scope, TRUE)[1] # "function" ) =>
         last.made = [thrown |-> "Invalid controller", widget |-> Null]

(************************** entity repositories ****************************)

\* the object stores of the database and the indexes of each of them
Stores == {Str("notes")}

Indexes == {Str("by_title")}

\* the callback that get and all hand to getStore, called with an error or
\* with the store: get rethrows the error and all emits it on the results
\* (st.called keeps the callbacks called, st.asked the calls of getStore)
StoreCallback(st0, c, err) ==
  LET st == [st0 EXCEPT !.called = Append(@, c.target)]
  IN
  IF c.op = "get"
  THEN IF err
       THEN [st |-> st, thrown |-> "Failed to get the store",
             failed |-> <<[owner |-> c.owner, kind |-> "store"]>>]
       ELSE [st |-> [st EXCEPT !.requests = Append(@, c)], thrown |-> "",
             failed |-> <<>>]
  ELSE IF err
       THEN [st |-> [st EXCEPT !.emitted = Append(@, <<c.target, "error">>)],
             thrown |-> "",
             failed |-> <<[owner |-> c.owner, kind |-> "store"]>>]
       ELSE IF c.index # Undefined /\ c.index \notin Indexes
            THEN [st |-> [st EXCEPT
                            !.emitted = Append(@, <<c.target, "error">>)],
                  thrown |-> "",
                  failed |-> <<[owner |-> c.owner, kind |-> "index"]>>]
            ELSE [st |-> [st EXCEPT !.requests = Append(@, c)],
                  thrown |-> "", failed |-> <<>>]

\* DatabaseService.getStore: with the database open the callback runs at
\* once, with the error of a transaction that cannot be made or with the
\* store; before that the call waits for the `open` event
GetStore(st0, name, c) ==
  LET st == [st0 EXCEPT !.asked = Append(@, c.target)]
  IN
  IF st.open
  THEN StoreCallback(st, c, name \notin Stores)
  ELSE [st |-> [st EXCEPT !.waiting = Append(@, c)], thrown |-> "",
        failed |-> <<>>]

\* EntityRepository.all for an emitter of results that `owner` is to hear of
AllFor(st, index_name, owner) ==
  LET results == st.made + 1
      called == GetStore([st EXCEPT !.made = results], st.store,
                         [op |-> "all", target |-> results,
                          index |-> index_name, owner |-> owner])
  IN  [st |-> called.st, thrown |-> called.thrown, failed |-> called.failed,
       returned |-> results]

RepositoryAll(st, index_name) == AllFor(st, index_name, st.made + 1)

\* EntityRepository.get: an array of results made an emitter has the four
\* methods of the mixin and no `pipe`, so the call with an index throws
\* after it has asked for the results
RepositoryGet(st, key, index_name) ==
  IF st.store = Null
  THEN [st |-> st, thrown |-> "Store name not specified", failed |-> <<>>,
        returned |-> 0]
  ELSE LET entity == st.made + 1
           made == [st EXCEPT !.made = entity]
       IN  IF index_name = Undefined
           THEN LET called == GetStore(made, st.store,
                                       [op |-> "get", target |-> entity,
                                        index |-> Undefined,
                                        owner |-> entity])
                IN  [st |-> called.st, thrown |-> called.thrown,
                     failed |-> called.failed,
                     returned |-> IF called.thrown = "" THEN entity ELSE 0]
           ELSE LET results == AllFor(made, index_name, entity)
                IN  [st |-> results.st,
                     thrown |-> "results.pipe is not a function",
                     failed |-> results.failed, returned |-> 0]

\* the listeners of `open`, each a waiting getStore call, run in order
\* until one of them throws
RECURSIVE Drain(_, _, _)
Drain(st, calls, failed) ==
  IF calls = <<>> THEN [st |-> st, thrown |-> "", failed |-> failed]
  ELSE LET called == StoreCallback(st, Head(calls), st.store \notin Stores)
       IN  IF called.thrown # ""
           THEN [st |-> called.st, thrown |-> called.thrown,
                 failed |-> failed \o called.failed]
           ELSE Drain(called.st, Tail(calls), failed \o called.failed)

(********************** entity repositories at work ************************)

MaxRepoSteps == 3

IndexNames == {Undefined, Str("by_title"), Str("by_date")}

RepoInit ==
  /\ objs = <<>>
  /\ arrs = <<>>
  /\ dom = <<>>
  /\ widgets_ = <<>>
  /\ \E store \in {Null, Str("notes"), Str("drafts")}, open \in BOOLEAN :
       rw = [store |-> store, open |-> open, waiting |-> <<>>,
             requests |-> <<>>, emitted |-> <<>>, made |-> 0,
             asked |-> <<>>, called |-> <<>>]
  /\ last = [op |-> "new", thrown |-> "", returned |-> 0]
  /\ hist = <<>>
  /\ steps = 0

RepoLeft(op, result) ==
  /\ steps < MaxRepoSteps
  /\ rw' = result.st
  /\ last' = [op |-> op, thrown |-> result.thrown,
              returned |-> result.returned]
  /\ hist' = hist \o [i \in 1..Len(result.failed) |->
                        [owner |-> result.failed[i].owner,
                         kind |-> result.failed[i].kind,
                         thrown |-> result.thrown # ""]]
  /\ steps' = steps + 1
  /\ UNCHANGED <<objs, arrs, dom, widgets_>>

RepoGet ==
  \E index_name \in IndexNames : RepoLeft("get", RepositoryGet(rw, 1, index_name))

RepoAll ==
  \E index_name \in IndexNames : RepoLeft("all", RepositoryAll(rw, index_name))

\* the database opens and emits `open`
RepoOpen ==
  /\ ~rw.open
  /\ LET drained == Drain([rw EXCEPT !.open = TRUE, !.waiting = <<>>],
                          rw.waiting, <<>>)
     IN  RepoLeft("open", [st |-> drained.st, thrown |-> drained.thrown,
                           failed |-> drained.failed, returned |-> 0])

\* the backend answers a request: with a record, with none, or by failing
RepoRespond ==
  \E i \in 1..Len(rw.requests), answer \in {"record", "none", "failure"} :
    LET c == rw.requests[i]
        rest == [j \in 1..(Len(rw.requests) - 1) |->
                   rw.requests[IF j < i THEN j ELSE j + 1]]
        type == IF answer = "failure" THEN <<"error">>
                ELSE IF c.op = "get" /\ answer = "none" THEN <<>>
                ELSE <<"ready">>
    IN  RepoLeft("respond",
          [st |-> [rw EXCEPT !.requests = rest,
                     !.emitted = @ \o [k \in 1..Len(type) |->
                                         <<c.target, type[k]>>]],
           thrown |-> "",
           failed |-> IF answer = "failure"
                      THEN <<[owner |-> c.owner, kind |-> "request"]>>
                      ELSE <<>>,
           returned |-> 0])

RepoNext == RepoGet \/ RepoAll \/ RepoOpen \/ RepoRespond

SpecRepository == RepoInit /\ [][RepoNext]_vars

(********************** claims on entity repositories **********************)

\* C29: every storage failure of get and all (no object store, no index, a
\* failed request) is an `error` emitted on the entity or result set of the
\* call, and none of them is thrown.
C29_FailuresEmitted ==
  \A i \in 1..Len(hist) :
    /\ ~hist[i].thrown
    /\ \E k \in 1..Len(rw.emitted) : rw.emitted[k] = <<hist[i].owner, "error">>

(****************************** parsing at work *****************************)

MaxParseSteps == 4

\* the expressions a run compiles: k, a.b=k, f(k), and texts that are no
\* expression or whose left-hand side is no getter path: =k, a|k, a=b=k,
\* 5=k, .=k, 5a=k, a!=k, a.=k
CompileSources ==
  { <<"k">>, <<"a", ".", "b", "=", "k">>, <<"f", "(", "k", ")">>,
    <<"=", "k">>, <<"a", "|", "k">>, <<"a", "=", "b", "=", "k">>,
    <<"5", "=", "k">>, <<".", "=", "k">>,
    <<"5", "a", "=", "k">>, <<"a", "!", "=", "k">>, <<"a", ".", "=", "k">> }

\* the scopes a run starts from: one root scope that holds `on`, `name` and
\* `n` when they are not undefined
ParseHeaps ==
  {[LighterScope(<<>>, <<>>, 1, 0).objs EXCEPT
      ![1].props = With(With(With(@, "on", on), "name", name), "n", n)] :
     on \in {Undefined, True, False},
     name \in {Undefined, Null, Str("Ann")},
     n \in {Undefined, Num(2)}}

ParseInit ==
  /\ dom = <<>>
  /\ widgets_ = <<>>
  /\ arrs = <<<<>>>>
  /\ objs \in ParseHeaps
  /\ rw = <<>>
  /\ last = [op |-> "init"]
  /\ hist = [source |-> <<>>, passed |-> {}]
  /\ steps = 0

\* lighter.ExpressionCompiler.compile(exp, scope), the evaluator not called
CompileOnly ==
  /\ steps < MaxParseSteps
  /\ \E exp \in CompileSources :
       last' = [op |-> "compiled", exp |-> exp, before |-> objs,
                thrown |-> CompileChecks(exp)]
  /\ steps' = steps + 1
  /\ UNCHANGED <<objs, arrs, dom, widgets_, rw, hist>>

\* A condition group, as its author means it: whether it is negated, the
\* path of its condition and its attributes, each a name and the tokens of
\* a value.
Group(negated, path, pairs) ==
  [negated |-> negated, path |-> path, pairs |-> pairs]

RECURSIVE PairsText(_)
PairsText(pairs) ==
  IF pairs = <<>> THEN <<>>
  ELSE <<Head(pairs)[1], "=">> \o Head(pairs)[2]
         \o (IF Len(pairs) = 1 THEN <<>> ELSE <<",">>)
         \o PairsText(Tail(pairs))

RECURSIVE ConditionText(_)
\* the tokens of the attribute condition expression that spells the groups
ConditionText(groups) ==
  IF groups = <<>> THEN <<>>
  ELSE (IF Head(groups).negated THEN <<"!">> ELSE <<>>)
         \o Text(Head(groups).path) \o <<":">> \o PairsText(Head(groups).pairs)
         \o (IF Len(groups) = 1 THEN <<>> ELSE <<";">>)
         \o ConditionText(Tail(groups))

\* the groups a run draws from: on:title=name / !on:title=5,rel=name /
\* name:title=n,rel=name,rev='s' / on: (no attribute)
WhenOn == Group(FALSE, <<Name("on")>>, << <<"title", <<"name">>>> >>)
WhenOff ==
  Group(TRUE, <<Name("on")>>,
        << <<"title", <<"5">>>>, <<"rel", <<"name">>>> >>)
WhenNamed ==
  Group(FALSE, <<Name("name")>>,
        << <<"title", <<"n">>>>, <<"rel", <<"name">>>>,
           <<"rev", <<"'", "s", "'">>>> >>)
Bare == Group(FALSE, <<Name("on")>>, <<>>)

ConditionSources ==
  { <<WhenOn>>, <<WhenOff>>, <<WhenOn, WhenOff>>, <<WhenNamed>>, <<Bare>> }

\* lighter.ExpressionCompiler.parseAttrConditions(exp, scope); the caller
\* keeps the conditions returned
ParseCall ==
  /\ steps < MaxParseSteps
  /\ \E groups \in ConditionSources :
       LET parsed == ParseAttrConditions(ConditionText(groups))
       IN /\ rw' = parsed.conditions
          /\ hist' = [source |-> groups, passed |-> {}]
          /\ last' = [op |-> "parsed", thrown |-> parsed.thrown]
  /\ steps' = steps + 1
  /\ UNCHANGED <<objs, arrs, dom, widgets_>>

\* conditions[i].check()
CheckCall ==
  /\ steps < MaxParseSteps
  /\ \E i \in 1..Len(rw) :
       /\ rw' = [rw EXCEPT ![i].attributes =
                              Check(objs, rw[i], ObjRef(1)).attributes]
       /\ last' = [op |-> "check", i |-> i, before |-> rw[i].attributes,
                   value |-> Check(objs, rw[i], ObjRef(1)).value]
       /\ hist' = [hist EXCEPT !.passed =
                     IF Check(objs, rw[i], ObjRef(1)).value
                     THEN @ \cup {i} ELSE @]
  /\ steps' = steps + 1
  /\ UNCHANGED <<objs, arrs, dom, widgets_>>

\* lighter.ExpressionCompiler.set(exp, value, scope) between two checks
ParseSet ==
  /\ steps < MaxParseSteps
  /\ \E name \in {"on", "name"}, value \in {True, False, Str("Bob")} :
       /\ objs' = Set(objs, <<name>>, value, ObjRef(1))
       /\ last' = [op |-> "set", name |-> name, value |-> value]
  /\ steps' = steps + 1
  /\ UNCHANGED <<arrs, dom, widgets_, rw, hist>>

\* A pattern, as its author means it: pieces of text, <<"text", s>>, and
\* bindings of a path, <<"bind", path>>, or of a path and the tokens of its
\* filters, <<"bind", path, filters>>.
RECURSIVE PatternText(_)
\* the tokens of the pattern that spells the pieces
PatternText(pieces) ==
  IF pieces = <<>> THEN <<>>
  ELSE (IF Head(pieces)[1] = "text" THEN <<Head(pieces)[2]>>
        ELSE <<"{{">> \o Text(Head(pieces)[2])
               \o (IF Len(Head(pieces)) = 3 THEN Head(pieces)[3] ELSE <<>>)
               \o <<"}}">>)
       \o PatternText(Tail(pieces))

\* the patterns a run fills: Hello {{name}}! / Hi / {{n}}{{name}} /
\* {{5}} / is {{on}}
Patterns ==
  { << <<"text", "Hello ">>, <<"bind", <<Name("name")>>>>, <<"text", "!">> >>,
    << <<"text", "Hi">> >>,
    << <<"bind", <<Name("n")>>>>, <<"bind", <<Name("name")>>>> >>,
    << <<"text", "{{">>, <<"text", "5">>, <<"text", "}}">> >>,
    << <<"text", "is ">>, <<"bind", <<Name("on")>>>> >> }

\* lighter.ExpressionCompiler.fillPattern(pat, scope)
FillCall ==
  /\ steps < MaxParseSteps
  /\ \E pieces \in Patterns :
       last' = [op |-> "filled", pieces |-> pieces,
                value |-> FillPattern(objs, PatternText(pieces), ObjRef(1))]
  /\ steps' = steps + 1
  /\ UNCHANGED <<objs, arrs, dom, widgets_, rw, hist>>

ParseNext == CompileOnly \/ ParseCall \/ CheckCall \/ ParseSet \/ FillCall

SpecParse == ParseInit /\ [][ParseNext]_vars

(***************************** claims on parsing ****************************)

\* C21: compile throws, and leaves the scope as it was, exactly when the
\* text is no expression or the whole of its left-hand side is no getter
\* path.
C21_CompileRejects ==
  last.op = "compiled" =>
    /\ objs = last.before
    /\ last.thrown = "" <=>
         /\ SplitExpression(last.exp).ok
         /\ \/ SplitExpression(last.exp).setter = <<>>
            \/ IsGetter(SplitExpression(last.exp).setter)

\* C22: parseAttrConditions returns one entry for each group, in order, the
\* attribute map of each holding every attribute of its group; the check of
\* an entry returns the truthiness of its condition, negated after `!`.
C22_EntryPerGroup ==
  /\ (last.op = "parsed" /\ ~last.thrown) =>
       /\ Len(rw) = Len(hist.source)
       /\ \A i \in 1..Len(hist.source) :
            \A n \in 1..Len(hist.source[i].pairs) :
              /\ i <= Len(rw)
              /\ hist.source[i].pairs[n][1] \in DOMAIN rw[i].attribute_map_
              /\ rw[i].attribute_map_[hist.source[i].pairs[n][1]]
                   = hist.source[i].pairs[n][2]
  /\ last.op = "check" =>
       last.value =
         IF Head(rw[last.i].match) = "!"
         THEN Falsy(Get(objs, Tail(rw[last.i].match), ObjRef(1)))
         ELSE ~Falsy(Get(objs, rw[last.i].match, ObjRef(1)))

\* the value of an attribute getter in the scope: a number, a string, or
\* what the one name of the getter holds
AttributeValue(os, getter) ==
  IF Head(getter) \in Quotes THEN Str(Join(SubSeq(getter, 2, Len(getter) - 1)))
  ELSE IF Head(getter) \in DOMAIN Digits THEN Num(NumberOf(getter))
  ELSE GetFrom(os, 1, Head(getter))

\* C23: a check that returns true leaves in `attributes` the value in the
\* current scope of every getter of the attribute map; a check that returns
\* false leaves `attributes` as it was, which is empty when no check of the
\* entry has returned true.
C23_CheckStoresOnPass ==
  last.op = "check" =>
    IF last.value
    THEN \A name \in DOMAIN rw[last.i].attribute_map_ :
           /\ name \in DOMAIN rw[last.i].attributes
           /\ rw[last.i].attributes[name]
                = AttributeValue(objs, rw[last.i].attribute_map_[name])
    ELSE /\ rw[last.i].attributes = last.before
         /\ last.i \notin hist.passed => rw[last.i].attributes = <<>>

\* a check that fails after an earlier one passed and stored a name
C23_Witness ==
  /\ last.op = "check"
  /\ ~last.value
  /\ last.i \in hist.passed
  /\ "title" \in DOMAIN rw[last.i].attributes
  /\ rw[last.i].attributes["title"] = Str("Ann")

RECURSIVE Expected(_, _)
\* the text the pieces stand for in the root scope
Expected(os, pieces) ==
  IF pieces = <<>> THEN ""
  ELSE (IF Head(pieces)[1] = "text" THEN Head(pieces)[2]
        ELSE IF Follow(os, Head(pieces)[2], 1, TRUE) = Undefined THEN ""
        ELSE ToText(Follow(os, Head(pieces)[2], 1, TRUE)))
       \o Expected(os, Tail(pieces))

\* C24: fillPattern returns the pattern with every binding replaced by the
\* value of its getter, by nothing when the value is undefined, and with
\* every other character kept.
C24_FillReplaces ==
  last.op = "filled" => last.value = Str(Expected(objs, last.pieces))

\* `Hello {{name}}!` filled in a scope without a name
C24_Witness ==
  /\ last.op = "filled"
  /\ last.pieces = << <<"text", "Hello ">>, <<"bind", <<Name("name")>>>>,
                      <<"text", "!">> >>
  /\ "name" \notin DOMAIN objs[1].props
  /\ last.value = Str("Hello !")

(******************************* the DOM compiler ***************************)

\* A document is a sequence of nodes, node 1 its root; a node holds its
\* attributes in order, each <<name, tokens of the value>>, and a text node
\* the tokens of its data.
Element(tag, attributes, childNodes) ==
  [nodeType |-> 1, tag |-> tag, attributes |-> attributes,
   childNodes |-> childNodes, nodeValue |-> <<>>]

TextNode(data) ==
  [nodeType |-> 3, tag |-> "#text", attributes |-> <<>>, childNodes |-> <<>>,
   nodeValue |-> data]

\* node.parentNode, 0 for none
ParentNode(doc, node) ==
  LET parents == {p \in 1..Len(doc) :
                    \E k \in 1..Len(doc[p].childNodes) :
                      doc[p].childNodes[k] = node}
  IN IF parents = {} THEN 0 ELSE CHOOSE p \in parents : TRUE

\* a variant of InsertAfter that appends the node
InsertLast(childNodes, node, ref) == Append(childNodes, node)

\* target.insertBefore(node, ref.nextSibling) on the children of target
InsertAfter(childNodes, node, ref) ==
  LET k == CHOOSE x \in 1..Len(childNodes) : childNodes[x] = ref
  IN SubSeq(childNodes, 1, k) \o <<node>>
       \o SubSeq(childNodes, k + 1, Len(childNodes))

\* element.getAttribute(name), <<>> standing for null
GetAttribute(doc, element, name) ==
  LET at == {k \in 1..Len(doc[element].attributes) :
               doc[element].attributes[k][1] = name}
  IN IF at = {} THEN <<>>
     ELSE doc[element].attributes[CHOOSE k \in at : TRUE][2]

\* a map of strings with one more entry, or one entry overwritten in place
PutEntry(map, name, value) ==
  IF \E k \in 1..Len(map) : map[k][1] = name
  THEN [k \in 1..Len(map) |->
          IF map[k][1] = name THEN <<name, value>> ELSE map[k]]
  ELSE Append(map, <<name, value>>)

\* data.match(EXPRESSION_MARKUP): where the first `{{`, getter expression,
\* filters, `}}` starts and ends, its expression and the filter captured,
\* that of the last repetition; found = FALSE for no match
MarkupMatch(data) ==
  LET ends(p) == {k \in (p + 2)..Len(data) : data[k] = "}}"}
      end(p) == CHOOSE k \in ends(p) : \A j \in ends(p) : k <= j
      parts(p) == SplitAt(SubSeq(data, p + 1, end(p) - 1), "|")
      starts == {p \in 1..Len(data) :
                   /\ data[p] = "{{"
                   /\ ends(p) # {}
                   /\ IsGetter(parts(p)[1])
                   /\ \A n \in 2..Len(parts(p)) :
                        Len(parts(p)[n]) = 1 /\ IsIdent(parts(p)[n][1])}
      index == CHOOSE p \in starts : \A q \in starts : p <= q
  IN IF starts = {} THEN [found |-> FALSE]
     ELSE [found |-> TRUE, index |-> index, end |-> end(index),
           exp |-> parts(index)[1],
           filter |-> IF Len(parts(index)) = 1 THEN <<>>
                      ELSE parts(index)[Len(parts(index))]]

RECURSIVE CompileTextNode(_, _)
\* lighter.DOMCompiler.compileTextNode(text): the document after it
CompileTextNode(doc, text) ==
  LET target == ParentNode(doc, text)
      data == doc[text].nodeValue
      match == MarkupMatch(data)
      element == Len(doc) + 1
      suffix == element + 1
      suffix_data == SubSeq(data, match.end + 1, Len(data))
      clipped == SubSeq(data, 1, match.index - 1)
      spanned == [Append(doc, Element("span",
                                      << <<"lt:bind", match.exp>>,
                                         <<"lt:filters", match.filter>> >>,
                                      <<>>))
                    EXCEPT ![target].childNodes = InsertAfter(@, element, text)]
      cut == IF clipped # <<>>
             THEN [spanned EXCEPT ![text].nodeValue = clipped]
             ELSE [spanned EXCEPT ![target].childNodes =
                     SelectSeq(@, LAMBDA n : n # text)]
  IN IF ~match.found THEN doc
     ELSE IF suffix_data = <<>> THEN cut
     ELSE CompileTextNode(
            [Append(cut, TextNode(suffix_data))
               EXCEPT ![target].childNodes = InsertAfter(@, suffix, element)],
            suffix)

RECURSIVE Escaped(_)
\* the characters of a JSON string that spell the text: `"` is escaped
Escaped(toks) ==
  IF toks = <<>> THEN <<>>
  ELSE <<IF Head(toks) = "\"" THEN "\\\"" ELSE Head(toks)>>
         \o Escaped(Tail(toks))

RECURSIVE Stringify(_)
\* JSON.stringify(result), without its braces
Stringify(map) ==
  IF map = <<>> THEN <<>>
  ELSE <<"\"", Head(map)[1], "\"", ":", "\"">> \o Escaped(Head(map)[2])
         \o <<"\"">> \o (IF Len(map) = 1 THEN <<>> ELSE <<",">>)
         \o Stringify(Tail(map))

RECURSIVE JsonParse(_)
\* JSON.parse of the text of an object of strings, without its braces
JsonParse(toks) ==
  IF Len(toks) < 6 THEN <<>>
  ELSE LET closings == {k \in 6..Len(toks) : toks[k] = "\""}
           k == CHOOSE x \in closings : \A y \in closings : x <= y
           value == [n \in 1..(k - 6) |->
                       IF toks[n + 5] = "\\\"" THEN "\"" ELSE toks[n + 5]]
           rest == SubSeq(toks, k + 1, Len(toks))
       IN <<<<toks[2], value>>>>
            \o JsonParse(IF rest # <<>> /\ Head(rest) = "," THEN Tail(rest)
                         ELSE rest)

\* a variant of Patterns_ that starts from an empty object
PatternsAfresh(old) == <<>>

\* the object JSON.parse(old || '{}') returns
Patterns_(old) ==
  IF old = <<>> THEN <<>> ELSE JsonParse(SubSeq(old, 2, Len(old) - 1))

RECURSIVE Collected(_, _, _)
\* the loop of compileAttributes over element.attributes, from i on
Collected(attrs, i, result) ==
  IF i > Len(attrs) THEN result
  ELSE Collected(attrs, i + 1,
         IF /\ attrs[i][1] # "lt:attr-patterns"
            /\ \E k \in 1..Len(attrs[i][2]) : attrs[i][2][k] = "{{"
         THEN PutEntry(result, attrs[i][1], attrs[i][2])
         ELSE result)

\* lighter.DOMCompiler.compileAttributes(element): the document after it
CompileAttributes(doc, element) ==
  LET old == GetAttribute(doc, element, "lt:attr-patterns")
      result == Collected(doc[element].attributes, 1, Patterns_(old))
  IN IF result = <<>> THEN doc
     ELSE [doc EXCEPT ![element].attributes =
             PutEntry(@, "lt:attr-patterns",
                      <<"{">> \o Stringify(result) \o <<"}">>)]

RECURSIVE TextsUnder(_, _)
RECURSIVE TextsAmong(_, _)
\* the text nodes under node, in document order
TextsUnder(doc, node) ==
  IF doc[node].nodeType = 3 THEN <<node>>
  ELSE TextsAmong(doc, doc[node].childNodes)

TextsAmong(doc, childNodes) ==
  IF childNodes = <<>> THEN <<>>
  ELSE TextsUnder(doc, Head(childNodes)) \o TextsAmong(doc, Tail(childNodes))

RECURSIVE CompileTexts(_, _)
\* the loop of compileDOM over the snapshot of text nodes
CompileTexts(doc, texts) ==
  IF texts = <<>> THEN doc
  ELSE CompileTexts(CompileTextNode(doc, Head(texts)), Tail(texts))

RECURSIVE CompileLevel(_, _)
RECURSIVE CompileLevels(_, _)
\* compileLevel(node) of compileDOM
CompileLevel(doc, node) ==
  IF doc[node].nodeType # 1 THEN doc
  ELSE CompileLevels(CompileAttributes(doc, node), doc[node].childNodes)

CompileLevels(doc, childNodes) ==
  IF childNodes = <<>> THEN doc
  ELSE CompileLevels(CompileLevel(doc, Head(childNodes)), Tail(childNodes))

\* lighter.DOMCompiler.compileDOM(dom): `//text()` selects the text nodes of
\* the whole document that holds dom, whose root is node 1
CompileDOM(doc, root) ==
  CompileLevel(CompileTexts(doc, TextsUnder(doc, 1)), root)

(**************************** the DOM compiler at work **********************)

MaxCompilerSteps == 2

\* the texts a run starts from: A {{x}} B {{y}} C / {{x}} / {{x}}{{y|f}} /
\* plain / {{5}} / {{a.b|f|g}} C
TextPieces ==
  { << <<"text", "A ">>, <<"bind", <<Name("x")>>>>, <<"text", " B ">>,
       <<"bind", <<Name("y")>>>>, <<"text", " C">> >>,
    << <<"bind", <<Name("x")>>>> >>,
    << <<"bind", <<Name("x")>>>>,
       <<"bind", <<Name("y")>>, <<"|", "f">>>> >>,
    << <<"text", "plain">> >>,
    << <<"text", "{{">>, <<"text", "5">>, <<"text", "}}">> >>,
    << <<"bind", <<Name("a"), Dot("b")>>, <<"|", "f", "|", "g">>>>,
       <<"text", " C">> >> }

\* the attribute lt:attr-patterns of a map
PatternsAttribute(map) ==
  <<"lt:attr-patterns", <<"{">> \o Stringify(map) \o <<"}">>>>

\* the attributes a run starts from
AttributeLists ==
  { <<>>,
    << <<"title", <<"{{", "x", "}}">>>> >>,
    << <<"class", <<"c">>>>, <<"title", <<"Hi ", "{{", "x", "}}", "\"">>>> >>,
    << PatternsAttribute(<< <<"title", <<"{{", "y", "}}">>>> >>),
       <<"title", <<"{{", "x", "}}">>>> >>,
    << PatternsAttribute(<< <<"href", <<"{{", "u", "}}">>>> >>),
       <<"title", <<"{{", "x", "}}">>>>, <<"class", <<"c">>>> >>,
    << PatternsAttribute(<< <<"href", <<"{{", "u", "}}">>>> >>),
       <<"class", <<"c">>>> >> }

\* <div>first<p attributes>second</p></div>
CompilerInit ==
  /\ objs = <<>>
  /\ arrs = <<>>
  /\ widgets_ = <<>>
  /\ rw = <<>>
  /\ \E first \in TextPieces, second \in TextPieces,
        attributes \in AttributeLists :
       /\ dom = << Element("div", <<>>, <<2, 3>>),
                   TextNode(PatternText(first)),
                   Element("p", attributes, <<4>>),
                   TextNode(PatternText(second)) >>
       /\ hist = [pieces |-> <<first, second>>, texts |-> {}, roots |-> {},
                  elements |-> {}]
  /\ last = [op |-> "init", again |-> FALSE, before |-> <<>>, node |-> 0]
  /\ steps = 0

RECURSIVE ElementsUnder(_, _)
\* the elements of the subtree of node
ElementsUnder(doc, node) ==
  IF doc[node].nodeType # 1 THEN {}
  ELSE {node} \cup UNION {ElementsUnder(doc, doc[node].childNodes[k]) :
                            k \in 1..Len(doc[node].childNodes)}

\* lighter.DOMCompiler.compileDOM(dom)
CompileDOMCall ==
  /\ steps < MaxCompilerSteps
  /\ \E root \in {1, 3} :
       /\ dom' = CompileDOM(dom, root)
       /\ last' = [op |-> "dom", again |-> root \in hist.roots,
                   before |-> dom, node |-> root]
       /\ hist' = [hist EXCEPT !.texts = {2, 4}, !.roots = @ \cup {root},
                     !.elements = @ \cup ElementsUnder(dom', root)]
  /\ steps' = steps + 1
  /\ UNCHANGED <<objs, arrs, widgets_, rw>>

\* lighter.DOMCompiler.compileTextNode(text), for a text node of the document
CompileTextNodeCall ==
  /\ steps < MaxCompilerSteps
  /\ \E k \in 1..Len(TextsUnder(dom, 1)) :
       LET text == TextsUnder(dom, 1)[k]
       IN /\ dom' = CompileTextNode(dom, text)
          /\ last' = [op |-> "text",
                      again |-> text \notin {2, 4} \/ text \in hist.texts,
                      before |-> dom, node |-> text]
          /\ hist' = [hist EXCEPT !.texts = @ \cup ({text} \cap {2, 4})]
  /\ steps' = steps + 1
  /\ UNCHANGED <<objs, arrs, widgets_, rw>>

\* lighter.DOMCompiler.compileAttributes(element), for an element of the
\* document
CompileAttributesCall ==
  /\ steps < MaxCompilerSteps
  /\ \E element \in ElementsUnder(dom, 1) :
       /\ dom' = CompileAttributes(dom, element)
       /\ last' = [op |-> "attributes", again |-> element \in hist.elements,
                   before |-> dom, node |-> element]
       /\ hist' = [hist EXCEPT !.elements = @ \cup {element}]
  /\ steps' = steps + 1
  /\ UNCHANGED <<objs, arrs, widgets_, rw>>

CompilerNext == CompileDOMCall \/ CompileTextNodeCall \/ CompileAttributesCall

SpecCompiler == CompilerInit /\ [][CompilerNext]_vars

(************************* claims on the DOM compiler ***********************)

\* what a child is: a text and its data, a bind element and its expression,
\* or another element
Sibling(doc, node) ==
  IF doc[node].nodeType = 3 THEN <<"text", doc[node].nodeValue>>
  ELSE IF doc[node].tag = "span" THEN <<"bind", GetAttribute(doc, node, "lt:bind")>>
  ELSE <<"element", doc[node].tag>>

Siblings(doc, parent) ==
  [k \in 1..Len(doc[parent].childNodes) |->
     Sibling(doc, doc[parent].childNodes[k])]

RECURSIVE ExpectedSiblings(_, _)
\* the siblings the pieces stand for, `pending` the text not yet closed by a
\* binding or the end
ExpectedSiblings(pieces, pending) ==
  IF pieces = <<>>
  THEN (IF pending = <<>> THEN <<>> ELSE <<<<"text", pending>>>>)
  ELSE IF Head(pieces)[1] = "text"
  THEN ExpectedSiblings(Tail(pieces), Append(pending, Head(pieces)[2]))
  ELSE (IF pending = <<>> THEN <<>> ELSE <<<<"text", pending>>>>)
         \o <<<<"bind", Text(Head(pieces)[2])>>>>
         \o ExpectedSiblings(Tail(pieces), <<>>)

\* C25: a text node that has been compiled is replaced by its texts and
\* bind elements in turn, in order and without empty texts, and compiling
\* what has been compiled changes nothing.
C25_TextRewritten ==
  /\ 2 \in hist.texts =>
       Siblings(dom, 1) = ExpectedSiblings(hist.pieces[1], <<>>)
                            \o <<<<"element", "p">>>>
  /\ 4 \in hist.texts =>
       Siblings(dom, 3) = ExpectedSiblings(hist.pieces[2], <<>>)
  /\ (last.op \in {"dom", "text"} /\ last.again) => dom = last.before

\* `A {{x}} B {{y}} C` compiled to five siblings, and compiled again
C25_Witness ==
  /\ last.op = "dom"
  /\ last.again
  /\ Siblings(dom, 1) =
       << <<"text", <<"A ">>>>, <<"bind", <<"x">>>>, <<"text", <<" B ">>>>,
          <<"bind", <<"y">>>>, <<"text", <<" C">>>>, <<"element", "p">> >>

\* the patterns an attribute list holds in lt:attr-patterns
HeldPatterns(attributes) ==
  LET at == {k \in 1..Len(attributes) : attributes[k][1] = "lt:attr-patterns"}
      held == attributes[CHOOSE k \in at : TRUE][2]
  IN IF at = {} THEN <<>> ELSE JsonParse(SubSeq(held, 2, Len(held) - 1))

\* the attributes of a list, other than lt:attr-patterns, that hold `{{`
Marked(attributes) ==
  {k \in 1..Len(attributes) :
     /\ attributes[k][1] # "lt:attr-patterns"
     /\ \E n \in 1..Len(attributes[k][2]) : attributes[k][2][n] = "{{"}

\* what compileAttributes has merged, every old entry kept (all = TRUE) or
\* every old entry whose name no marked attribute bears
Merged(all) ==
  last.op = "attributes" =>
    LET was == last.before[last.node].attributes
        is == dom[last.node].attributes
        old == HeldPatterns(was)
        new == HeldPatterns(is)
        names == {was[k][1] : k \in Marked(was)}
    IN /\ \A k \in 1..Len(old) :
            (all \/ old[k][1] \notin names) =>
              \E n \in 1..Len(new) : new[n] = old[k]
       /\ \A k \in Marked(was) : \E n \in 1..Len(new) : new[n] = was[k]
       /\ \A n \in 1..Len(new) :
            new[n][1] \in names \cup {old[k][1] : k \in 1..Len(old)}
       /\ \A k \in 1..Len(was) :
            was[k][1] # "lt:attr-patterns" => is[k] = was[k]
       /\ (old = <<>> /\ Marked(was) = {}) => is = was
       /\ last.again => dom = last.before

\* C26: after compileAttributes the map of lt:attr-patterns holds every
\* entry it held before and the name and value of every other attribute
\* that holds `{{`, the element is as it was when there is nothing to
\* record, and a second application changes nothing.
C26_MergedWithAll == Merged(TRUE)

\* C26, amended: an old entry is kept unless an attribute that holds `{{`
\* bears its name, whose value then takes its place.
C26_MergedUnlessRenewed == Merged(FALSE)

\* an element that holds the pattern of href and a title with `{{`, merged
C26_Witness ==
  /\ last.op = "attributes"
  /\ HeldPatterns(last.before[last.node].attributes)
       = << <<"href", <<"{{", "u", "}}">>>> >>
  /\ HeldPatterns(dom[last.node].attributes)
       = << <<"href", <<"{{", "u", "}}">>>>, <<"title", <<"{{", "x", "}}">>>> >>

(********************************* lt:bind **********************************)

RECURSIVE Commas(_)
\* Array.prototype.join of the texts of the elements
Commas(texts) ==
  IF texts = <<>> THEN ""
  ELSE IF Len(texts) = 1 THEN Head(texts)
  ELSE Head(texts) \o "," \o Commas(Tail(texts))

\* the text of an atom, a value that stands for a string of one letter
AtomText(value) == IF value = Atom(1) THEN "a" ELSE "b"

\* String(value), what the setter of textContent makes of the value
TextOf(as, value) ==
  IF value[1] = "array"
  THEN Commas([k \in 1..Len(as[value[2]]) |-> AtomText(as[value[2]][k])])
  ELSE ToText(value)

\* the function `update` of the factory of @lt:bind: the text of the
\* element and the state of the closure after it, and whether it wrote
BindUpdate(os, as, textContent, state, exp, scope) ==
  LET got == Get(os, exp, scope)
      value == IF got \in {Undefined, Null} THEN Str("") ELSE got
  IN IF state # value
     THEN [textContent |-> TextOf(as, value), state |-> value, wrote |-> TRUE]
     ELSE [textContent |-> textContent, state |-> state, wrote |-> FALSE]

\* the factory of @lt:bind: the state starts as the text of the element,
\* and update() is called once
BindFactory(os, as, textContent, exp, scope) ==
  BindUpdate(os, as, textContent, Str(textContent), exp, scope)

(****************************** lt:bind at work *****************************)

MaxBindSteps == 3

\* the values a run binds: nothing, null, numbers, strings, a boolean and an
\* array
Bound == {Undefined, Null, Num(0), Num(5), Str(""), Str("5"), Str("Ann"),
          False, ArrRef(2)}

\* <span lt:bind="v">text</span> and a scope whose v is one of the values;
\* array 2 holds one item
BindInit ==
  /\ \E value \in Bound :
       objs = [LighterScope(<<>>, <<>>, 1, 0).objs EXCEPT
                 ![1].props = With(@, "v", value)]
  /\ arrs = <<<<>>, <<Atom(1)>>>>
  /\ \E text \in {"", "5", "old"} : dom = <<[textContent |-> text]>>
  /\ widgets_ = <<>>
  /\ rw = [made |-> FALSE, state |-> Undefined]
  /\ last = [op |-> "init", wrote |-> FALSE]
  /\ hist = <<>>
  /\ steps = 0

\* what a call of update leaves: hist holds the values written
Bind(op, done) ==
  /\ steps < MaxBindSteps
  /\ dom' = [dom EXCEPT ![1].textContent = done.textContent]
  /\ rw' = [made |-> TRUE, state |-> done.state]
  /\ last' = [op |-> op, wrote |-> done.wrote]
  /\ hist' = IF done.wrote THEN Append(hist, done.state) ELSE hist
  /\ steps' = steps + 1
  /\ UNCHANGED <<objs, arrs, widgets_>>

\* the factory of @lt:bind, called for the element
BindCreate ==
  /\ ~rw.made
  /\ Bind("bind", BindFactory(objs, arrs, dom[1].textContent, <<"v">>,
                              ObjRef(1)))

\* widget.update()
BindUpdateCall ==
  /\ rw.made
  /\ Bind("update", BindUpdate(objs, arrs, dom[1].textContent, rw.state,
                               <<"v">>, ObjRef(1)))

\* scope.v = value
BindAssign ==
  /\ steps < MaxBindSteps
  /\ \E value \in Bound :
       /\ value # GetFrom(objs, 1, "v")
       /\ objs' = SetOwn(objs, 1, "v", value)
  /\ last' = [op |-> "assign", wrote |-> FALSE]
  /\ steps' = steps + 1
  /\ UNCHANGED <<arrs, dom, widgets_, rw, hist>>

\* an item pushed on the array, in place
BindPush ==
  /\ steps < MaxBindSteps
  /\ Len(arrs[2]) < MaxLen
  /\ \E item \in Atoms : arrs' = [arrs EXCEPT ![2] = Append(@, item)]
  /\ last' = [op |-> "push", wrote |-> FALSE]
  /\ steps' = steps + 1
  /\ UNCHANGED <<objs, dom, widgets_, rw, hist>>

BindNext == BindCreate \/ BindUpdateCall \/ BindAssign \/ BindPush

SpecBind == BindInit /\ [][BindNext]_vars

(****************************** claims on lt:bind ***************************)

\* C34: after the creation of the widget and after every update() the text
\* of the element is the value of the expression, the empty text for
\* undefined and null; the element is written only when the value is not
\* the one written last.
C34_TextIsValue ==
  last.op \in {"bind", "update"} =>
    /\ dom[1].textContent =
         IF GetFrom(objs, 1, "v") \in {Undefined, Null} THEN ""
         ELSE TextOf(arrs, GetFrom(objs, 1, "v"))
    /\ (last.wrote /\ Len(hist) >= 2) => hist[Len(hist)] # hist[Len(hist) - 1]

(****************** claims on event emitters: removal **********************)

\* the positions of the items of a snapshot whose listener was called in the
\* emission eid
CalledIn(log, eid) == {log[c].index : c \in CallsOf(log, eid)}

\* C35: every one-shot listener that an emit call removes from the registry
\* is invoked during that same emit call, whatever the other listeners of
\* the emission return.
C35_RemovedWereInvoked ==
  last.op = "emit" =>
    \A b \in EmitsIn(Log) : \A n \in 1..Len(Log[b].items) :
      (/\ ~Falsy(Log[b].items[n].once)
       /\ Log[b].items[n].reg \notin Regs(RegisteredNow(Log[b].type)))
        => n \in CalledIn(Log, Log[b].eid)

\* the calls of off that listeners made during the emission that begins at
\* position b of the log
OffsIn(log, b) ==
  {p \in (b + 1)..(EndOf(log, log[b].eid) - 1) :
     log[p].kind = "off" /\ log[p].type = log[b].type}

\* the position in its snapshot at which the emission eid is at position p
\* of the log
IndexAt(log, eid, p) ==
  Cardinality({c \in CallsOf(log, eid) : c < p})

\* the items that were subscribed before the call of off at position p of
\* the log and hold the listener it names
Unsubscribed(log, p, items) ==
  {n \in 1..Len(items) :
     items[n].listener = log[p].fn /\ items[n].reg <= log[p].regs}

Builder(k) == <<"builder", k>>
ViewOf(builder, temp) ==
  IF builder = Builder(1)
  THEN << Node(1, "div", Attrs({}), <<temp + 1>>),
          Node(1, "span", Attrs({"lt:bind"}), <<>>) >>
  ELSE << Node(1, "div", Attrs({}), <<temp + 1, temp + 2>>),
          Node(1, "p", Attrs({"lt:bind", "lt:click"}), <<>>),
          Node(1, "span", Attrs({"lt:bind"}), <<>>) >>

\* a view widget is <<"view", container>>; its fields scope, key and builder
\* are in st.view, the stores in st.dom, st.objs and st.arrs, the
\* definitions of the registry in st.defs

\* ViewAttributeWidget.prototype.render, in two parts: the container emptied
\* and the HTML of the builder in a temporary div, the template of the div
\* applied to the scope of the widget; then the children of the div moved
\* to the container
Rendered(st, container, temp, doc) ==
  [st EXCEPT
     !.dom = [doc EXCEPT ![container].childNodes = doc[temp].childNodes,
                         ![temp].childNodes = <<>>],
     !.arrs = LiveWidgetPlaceholdersInDOM(doc, st.objs, st.arrs, st.defs,
                                          temp, st.view.scope, FALSE).arrs,
     !.renders = @ + 1]

Render(st, container, builder) ==
  IF Falsy(builder)
  THEN [st EXCEPT !.dom[container].childNodes = <<>>, !.renders = @ + 1]
  ELSE Rendered(st, container, Len(st.dom) + 1,
                [st.dom EXCEPT ![container].childNodes = <<>>]
                  \o ViewOf(builder, Len(st.dom) + 1))

\* new lighter.ViewAttributeWidget(container, scope, key), with init_
ViewAttributeWidget(st, container, scope, key) ==
  Render([st EXCEPT !.view = [scope |-> scope, key |-> key,
                              builder |-> GetFrom(st.objs, scope, key)]],
         container, GetFrom(st.objs, scope, key))

\* ViewAttributeWidget.prototype.update
ViewUpdate(st, container) ==
  LET builder == GetFrom(st.objs, st.view.scope, st.view.key)
  IN IF builder # st.view.builder
     THEN Render([st EXCEPT !.view.builder = builder], container, builder)
     ELSE st

\* the callback of the forEach of $update for the widget at index i of the
\* widgets of the scope
Visit(st, scope, i) ==
  LET widget == st.arrs[GetFrom(st.objs, scope, "$$widgets")[2]][i]
  IN IF widget[1] = "view"
     THEN ViewUpdate([st EXCEPT !.calls = Append(@, widget)], widget[2])
     ELSE IF HasUpdate(widget) THEN [st EXCEPT !.calls = Append(@, widget)]
     ELSE st

RECURSIVE UpdatePassLive(_, _, _, _)
\* a forEach that goes on to the widgets added during the pass
UpdatePassLive(st, scope, len, i) ==
  IF i > Len(st.arrs[GetFrom(st.objs, scope, "$$widgets")[2]]) THEN st
  ELSE UpdatePassLive(Visit(st, scope, i), scope, len, i + 1)

RECURSIVE UpdatePass(_, _, _, _)
\* scope.$update() with widgets whose update() changes the stores: the
\* forEach visits the indexes below the length the array had at its start
UpdatePass(st, scope, len, i) ==
  IF i > len THEN st
  ELSE UpdatePass(Visit(st, scope, i), scope, len, i + 1)

(****************************** lt:view at work *****************************)

MaxViewSteps == 5

\* what scope.view may hold
Builders == {Undefined, Null, Builder(1), Builder(2)}

\* <div lt:view="view"></div>
ViewPage == << Node(1, "div", Attrs({"lt:view"}), <<>>) >>

\* the registry with lt:bind and lt:click
ViewWidgets ==
  Widget(Widget(<<>>, <<"@", "lt:bind">>, <<"factory", 3, 1>>, FALSE),
         <<"@", "lt:click">>, <<"factory", 4, 0>>, FALSE)

NoView == [scope |-> 0, key |-> "", builder |-> Undefined]

\* a scope bound to the element of the page; scope.view holds a builder or
\* nothing
ViewInit ==
  /\ dom = ViewPage
  /\ \E builder \in Builders \ {Null} :
       LET made == LighterScope(<<>>, <<>>, 1, 0)
       IN /\ objs = [made.objs EXCEPT ![1].props = With(@, "view", builder)]
          /\ arrs = made.arrs
  /\ widgets_ = ViewWidgets
  /\ rw = NoView
  /\ last = [op |-> "init"]
  /\ hist = 0
  /\ steps = 0

\* the state in which an operation on the view starts
ViewRunning ==
  [dom |-> dom, objs |-> objs, arrs |-> arrs, defs |-> widgets_, view |-> rw,
   calls |-> <<>>, renders |-> 0]

\* the state an operation on the view leaves: `last` keeps the widgets of
\* the scope and the builder of the widget as they were before it
ViewLeft(op, st, as) ==
  /\ dom' = st.dom
  /\ arrs' = as
  /\ rw' = st.view
  /\ last' = [op |-> op, calls |-> st.calls, renders |-> st.renders,
              before |-> [widgets |-> arrs[1], builder |-> rw.builder,
                          nodes |-> Len(dom)]]
  /\ hist' = hist + st.renders
  /\ steps' = steps + 1
  /\ UNCHANGED <<objs, widgets_>>

\* processElement for the element with lt:view: the factory of @lt:view
\* returns a new ViewAttributeWidget, which scope.$addWidget binds
ViewCreate ==
  /\ steps < MaxViewSteps
  /\ rw = NoView
  /\ LET st == ViewAttributeWidget(ViewRunning, 1, 1, "view")
     IN ViewLeft("view", st, AddWidget(st.objs, st.arrs, 1, <<"view", 1>>))

\* scope.view = builder
ViewAssign ==
  /\ steps < MaxViewSteps
  /\ \E builder \in Builders :
       /\ builder # GetFrom(objs, 1, "view")
       /\ objs' = SetOwn(objs, 1, "view", builder)
  /\ last' = [op |-> "assign", calls |-> <<>>, renders |-> 0,
              before |-> [widgets |-> arrs[1], builder |-> rw.builder,
                          nodes |-> Len(dom)]]
  /\ steps' = steps + 1
  /\ UNCHANGED <<dom, arrs, widgets_, rw, hist>>

\* scope.$update()
ViewScopeUpdate ==
  /\ steps < MaxViewSteps
  /\ LET st == UpdatePass(ViewRunning, 1, Len(arrs[1]), 1)
     IN ViewLeft("$update", st, st.arrs)

ViewNext == ViewCreate \/ ViewAssign \/ ViewScopeUpdate

SpecView == ViewInit /\ [][ViewNext]_vars

(****************************** claims on lt:view ***************************)

\* the members of a sequence
Range(f) == {f[n] : n \in DOMAIN f}

\* the widgets that the factories of lt:bind return for the elements that
\* a render put in the container, in document order
RECURSIVE BoundIn(_, _)
BoundIn(doc, nodes) ==
  IF nodes = <<>> THEN <<>>
  ELSE (IF "lt:bind" \in DOMAIN doc[Head(nodes)].attrs
        THEN <<WidgetRef(Head(nodes))>> ELSE <<>>) \o BoundIn(doc, Tail(nodes))

\* the nodes that the last operation made and that are in the container
NewInContainer ==
  SelectSeq(dom[1].childNodes, LAMBDA n : n > last.before.nodes)

\* the widgets in a list that have an update function
Updatable(list) == SelectSeq(list, LAMBDA w : w[1] = "view" \/ HasUpdate(w))

AsPage(doc) ==
  [n \in 1..Len(doc) |->
     Node(doc[n].nodeType, doc[n].tag,
          [name \in {doc[n].attributes[k][1] :
                       k \in 1..Len(doc[n].attributes)} |->
             GetAttribute(doc, n, name)],
          doc[n].childNodes)]

\* lighter.bootstrap after lighter.scope made the root scope `made` and
\* DOMCompiler.compileDOM made `doc` of the document: the template applied
\* to the scope, and the application marked as running
Bootstrapped(st, root_element, made, doc) ==
  LET done == LiveWidgetPlaceholdersInDOM(AsPage(doc), made.objs, made.arrs,
                                          st.defs, root_element, made.id, TRUE)
  IN [st EXCEPT !.objs = made.objs, !.arrs = done.arrs, !.dom = doc,
                !.log = done.log, !.running_ = TRUE, !.root_scope = made.id]

\* lighter.bootstrap that marks the application as running before it does
\* anything else
BootstrapMarkingFirst(st, root_element) ==
  IF st.running_ THEN [st EXCEPT !.thrown = "running"]
  ELSE IF root_element = 0
  THEN [st EXCEPT !.objs = LighterScope(st.objs, st.arrs, 0, 0).objs,
                  !.arrs = LighterScope(st.objs, st.arrs, 0, 0).arrs,
                  !.running_ = TRUE,
                  !.thrown = "invalid"]
  ELSE Bootstrapped(st, root_element,
                    LighterScope(st.objs, st.arrs, root_element, 0),
                    CompileDOM(st.dom, root_element))

\* lighter.bootstrap(root_element); root_element = 0 stands for a Document
\* without a documentElement, for which lighter.compile throws
Bootstrap(st, root_element) ==
  IF st.running_ THEN [st EXCEPT !.thrown = "running"]
  ELSE IF root_element = 0
  THEN [st EXCEPT !.objs = LighterScope(st.objs, st.arrs, 0, 0).objs,
                  !.arrs = LighterScope(st.objs, st.arrs, 0, 0).arrs,
                  !.thrown = "invalid"]
  ELSE Bootstrapped(st, root_element,
                    LighterScope(st.objs, st.arrs, root_element, 0),
                    CompileDOM(st.dom, root_element))

(***************************** bootstrap at work ****************************)

MaxBootSteps == 4

\* the registry with lt:bind and lt:attr-patterns
BootWidgets ==
  Widget(Widget(<<>>, <<"@", "lt:bind">>, <<"factory", 3, 1>>, FALSE),
         <<"@", "lt:attr-patterns">>, <<"factory", 8, 1>>, FALSE)

\* <div>first<p attributes></p></div>, no scope, the application not running
BootInit ==
  /\ objs = <<>>
  /\ arrs = <<>>
  /\ widgets_ = BootWidgets
  /\ rw = [running_ |-> FALSE]
  /\ \E first \in TextPieces, attributes \in AttributeLists :
       dom = << Element("div", <<>>, <<2, 3>>),
                TextNode(PatternText(first)),
                Element("p", attributes, <<>>) >>
  /\ hist = [returned |-> FALSE, failed |-> FALSE]
  /\ last = [op |-> "init"]
  /\ steps = 0

\* lighter.bootstrap(root_element), with the page or with an empty Document
BootstrapCall ==
  /\ steps < MaxBootSteps
  /\ \E root_element \in {0, 1} :
       LET st == Bootstrap([objs |-> objs, arrs |-> arrs, dom |-> dom,
                            defs |-> widgets_, running_ |-> rw.running_,
                            log |-> <<>>, thrown |-> "", root_scope |-> 0],
                           root_element)
       IN /\ objs' = st.objs
          /\ arrs' = st.arrs
          /\ dom' = st.dom
          /\ rw' = [running_ |-> st.running_]
          /\ last' = [op |-> "bootstrap", root_element |-> root_element,
                      thrown |-> st.thrown, log |-> st.log,
                      root_scope |-> st.root_scope,
                      before |-> [objs |-> objs, arrs |-> arrs, dom |-> dom,
                                  returned |-> hist.returned,
                                  failed |-> hist.failed]]
          /\ hist' = [returned |-> hist.returned \/ st.thrown = "",
                      failed |-> hist.failed \/ st.thrown = "invalid"]
  /\ steps' = steps + 1
  /\ UNCHANGED widgets_

BootNext == BootstrapCall

SpecBoot == BootInit /\ [][BootNext]_vars

(***************************** claims on bootstrap **************************)

\* C38: once a call of lighter.bootstrap has returned, every later call
\* throws before it makes a scope, rewrites the document or calls a factory;
\* while none has returned, whether calls have failed or not, a call is not
\* turned away as `already running`, and a call that fails leaves it so.
C38_BootstrapOnce ==
  last.op = "bootstrap" =>
    /\ last.before.returned =>
         /\ last.thrown = "running"
         /\ objs = last.before.objs
         /\ arrs = last.before.arrs
         /\ dom = last.before.dom
         /\ last.log = <<>>
    /\ ~last.before.returned =>
         /\ last.thrown # "running"
         /\ last.thrown = "" => last.root_scope = Len(objs)

\* a call that is turned away after a call that failed and a call that
\* returned, which had rewritten the text of the page and called a factory
C38_Witness ==
  /\ last.op = "bootstrap"
  /\ last.before.returned
  /\ last.before.failed
  /\ last.thrown = "running"
  /\ Len(dom) > 3
  /\ arrs[Len(arrs)] # <<>>

(************************* claims on the database ***************************)

\* the entities and result sets of the calls of getStore that wait
Waiting == [k \in 1..Len(rw.waiting) |-> rw.waiting[k].target]

Unlisted ==
  {"$$event_listeners_", "on", "once", "off", "emit", "id", "stored", "doc_",
   "unlisted_keys_", "_id"}

\* delete object[key]
Delete(object, key) == [k \in DOMAIN object \ {key} |-> object[k]]

\* object[key]
ValueAt(object, key) ==
  IF key \in DOMAIN object THEN object[key] ELSE Undefined

\* Entity.prototype.getDocument
GetDocument(entity) ==
  IF ~Falsy(entity.id) THEN Put(entity.own, "_id", entity.id) ELSE entity.own

\* a diff that leaves out the keys that were removed
DiffOfPresent(entity) ==
  LET old == entity.doc_
      current == GetDocument(entity)
  IN [key \in {k \in DOMAIN current : current[k] # ValueAt(old, k)} |->
        current[key]]

\* Entity.prototype.getDocumentDiff: the keys of the current document whose
\* value is not that of the old one, then the keys of the old document that
\* are left in removed_keys, with undefined
GetDocumentDiff(entity) ==
  LET old == entity.doc_
      current == GetDocument(entity)
      removed_keys == DOMAIN old \ DOMAIN current
  IN [key \in {k \in DOMAIN current : current[k] # ValueAt(old, k)}
                 \cup removed_keys |->
        IF key \in removed_keys THEN Undefined ELSE current[key]]

\* Entity.prototype.update
EntityUpdate(entity, doc) ==
  [entity EXCEPT
     !.own = [k \in DOMAIN entity.own \cup (DOMAIN doc \ Unlisted) |->
                IF k \in DOMAIN doc THEN doc[k] ELSE entity.own[k]],
     !.id = IF ~Falsy(ValueAt(doc, "_id")) THEN doc["_id"] ELSE @,
     !.stored = IF ~Falsy(ValueAt(doc, "_id")) THEN TRUE ELSE @,
     !.emitted = Append(@, "change")]

\* Entity.prototype.merge
EntityMerge(entity) == [entity EXCEPT !.doc_ = GetDocument(entity)]

\* Entity.prototype.setDocument
SetDocument(entity, doc) ==
  EntityMerge(EntityUpdate([entity EXCEPT !.id = Null, !.stored = FALSE,
                                          !.own = <<>>], doc))

\* new lighter.Entity(doc)
Entity(doc) ==
  SetDocument([id |-> Null, stored |-> FALSE, own |-> <<>>, doc_ |-> <<>>,
               emitted |-> <<>>], doc)

(***************************** entities at work *****************************)

MaxEntitySteps == 3

\* the keys and values of the documents of a run
DocKeys == {"a", "b", "_id"}
DocValues == {Undefined, Num(0), Num(7)}
Docs == UNION {[S -> DocValues] : S \in SUBSET DocKeys}

\* new lighter.Entity(doc); hist keeps the document of the entity as it was
\* at the last merge, and whether the entity was left alone since
EntityInit ==
  /\ objs = <<>>
  /\ arrs = <<>>
  /\ dom = <<>>
  /\ widgets_ = <<>>
  /\ \E doc \in {d \in Docs : DOMAIN d \subseteq {"a", "_id"}} :
       /\ rw = Entity(doc)
       /\ hist = [merged |-> GetDocument(Entity(doc)), fresh |-> TRUE]
  /\ last = [op |-> "new"]
  /\ steps = 0

EntityLeft(op, entity, result, merged, fresh) ==
  /\ steps < MaxEntitySteps
  /\ rw' = entity
  /\ last' = [op |-> op, before |-> rw, result |-> result]
  /\ hist' = [merged |-> merged, fresh |-> fresh]
  /\ steps' = steps + 1
  /\ UNCHANGED <<objs, arrs, dom, widgets_>>

\* entity.update(doc)
EntityUpdateCall ==
  \E doc \in Docs :
    EntityLeft("update", EntityUpdate(rw, doc), <<>>, hist.merged, FALSE)

\* delete entity[key]
EntityDelete ==
  \E key \in DOMAIN rw.own :
    EntityLeft("delete", [rw EXCEPT !.own = Delete(@, key)], <<>>,
               hist.merged, FALSE)

\* entity.merge()
EntityMergeCall ==
  EntityLeft("merge", EntityMerge(rw), <<>>, GetDocument(rw), TRUE)

\* entity.setDocument(doc)
EntitySetDocument ==
  \E doc \in Docs :
    EntityLeft("setDocument", SetDocument(rw, doc), <<>>,
               GetDocument(SetDocument(rw, doc)), TRUE)

\* entity.getDocumentDiff()
EntityDiff ==
  EntityLeft("getDocumentDiff", rw, GetDocumentDiff(rw), hist.merged,
             hist.fresh)

EntityNext ==
  \/ EntityUpdateCall
  \/ EntityDelete
  \/ EntityMergeCall
  \/ EntitySetDocument
  \/ EntityDiff

SpecEntity == EntityInit /\ [][EntityNext]_vars

(***************************** claims on entities ***************************)

\* C40: a diff taken when nothing happened to the entity since merge() or
\* setDocument(doc) is empty; otherwise its keys are the keys of the current
\* document whose value is not the one merged, with the current value, and
\* the keys of the merged document that the current one lacks, with
\* undefined; getDocumentDiff leaves the entity and its baseline as they
\* were; update(doc) emits `change` once.
C40_DiffFromBaseline ==
  /\ last.op = "getDocumentDiff" =>
       /\ rw = last.before
       /\ hist.fresh => last.result = <<>>
       /\ \A key \in DocKeys \cup Unlisted :
            LET now == GetDocument(rw)
            IN IF key \in DOMAIN now /\ now[key] # ValueAt(hist.merged, key)
               THEN key \in DOMAIN last.result /\ last.result[key] = now[key]
               ELSE IF key \in DOMAIN hist.merged \ DOMAIN now
               THEN key \in DOMAIN last.result /\ last.result[key] = Undefined
               ELSE key \notin DOMAIN last.result
  /\ last.op = "update" =>
       rw.emitted = Append(last.before.emitted, "change")

\* a diff that holds a key with a new value and a key that was deleted
\* after the merge
C40_Witness ==
  /\ last.op = "getDocumentDiff"
  /\ \E k \in DOMAIN last.result :
       k \in DOMAIN rw.own /\ last.result[k] # Undefined
  /\ \E k \in DOMAIN last.result :
       k \in DOMAIN hist.merged /\ hist.merged[k] # Undefined
         /\ k \notin DOMAIN GetDocument(rw)

====
